---- MODULE Spec2Model ----
(***************************************************************************)
(* A model of src/Frontend.py: the tokenizer clean_text, the indexer       *)
(* create_index, the ranker rank_query and the request handler             *)
(* search_page.                                                            *)
(*                                                                         *)
(* Representation.                                                         *)
(*  - A Python str is the sequence of its Unicode code points ("the" is   *)
(*    <<116, 104, 101>>); a file name is a TLA+ string.                    *)
(*  - A token (term) is a non-empty sequence of code points.               *)
(*  - A list is a sequence and a tuple is a tuple.                         *)
(*  - A dict is the sequence of its items <<key, value>> in insertion      *)
(*    order, which is the order Python iterates it in.                     *)
(*  - A float is an IEEE-754 double: 0.0 is <<0, 0, <<>>>> and any other   *)
(*    value is <<s, e, m>>, meaning s * m * 2^e, with s = 1 or -1 and m a  *)
(*    natural number of exactly 53 bits.  A natural number is the sequence *)
(*    of its digits in base 2^15, least significant first.  +, *, / and    *)
(*    math.sqrt round to nearest, ties to even, as the hardware does;      *)
(*    math.log10 and ** are tables of the C library's values.  The sign of *)
(*    a zero, infinities, NaN and subnormal numbers are not represented.   *)
(*  - An exception raised by rank_query is recorded in the variable        *)
(*    raised ("none" when the call returned).                              *)
(***************************************************************************)
EXTENDS Integers, Sequences, FiniteSets, TLC

VARIABLES
    folder,       \* the corpus directory: file name -> raw text
    files,        \* create_index: files = sorted(os.listdir(folder_path))
    N,            \* create_index: N = len(files)
    index,        \* dict: term -> <<document frequency, postings list>>
    doc_lengths,  \* dict: doc_id -> vector length
    doc_map,      \* dict: doc_id -> file name
    i,            \* create_index: number of files the first loop has processed
    pc,           \* position of the program
    query,        \* the query string of the call in progress
    top_k,        \* the top_k of the call in progress
    results,      \* the list the call returned
    raised,       \* the exception the call raised, "none" if it returned
    text,         \* tokenizer run: the input string
    tokens,       \* tokenizer run: clean_text(text)
    retokens,     \* tokenizer run: clean_text(" ".join(tokens))
    rebuilt,      \* a second create_index run over the same folder
    results2      \* rank_query on the second run's bundle

vars == <<folder, files, N, index, doc_lengths, doc_map, i, pc, query, top_k,
          results, raised, text, tokens, retokens, rebuilt, results2>>

buildVars == <<files, N, index, doc_lengths, doc_map, i>>
callVars == <<query, top_k, results, raised>>
cleanVars == <<text, tokens, retokens>>
rebuildVars == <<rebuilt, results2>>

-----------------------------------------------------------------------------
(* Bounds of the model. *)

\* most files in the corpus folder
MaxDocs == 3

\* largest top_k of a direct rank_query call
MaxTopK == 2

\* longest input string of a tokenizer run
MaxLen == 3

\* rank_query's default top_k
DefaultTopK == 10

-----------------------------------------------------------------------------
(* Lists and dicts. *)

\* the elements of a sequence
Range(s) == {s[j] : j \in DOMAIN s}

\* the list of the values f[1], ..., f[n] of a function f on 1..n
List(f) == <<>> \o f

\* an empty dict
EmptyDict == <<>>

\* key in d
HasKey(d, key) == \E j \in DOMAIN d : d[j][1] = key

\* d[key], for a key of d
Value(d, key) == d[CHOOSE j \in DOMAIN d : d[j][1] = key][2]

\* d.get(key, default)
Get(d, key, default) == IF HasKey(d, key) THEN Value(d, key) ELSE default

\* d after d[key] = value: a new key goes to the end
Put(d, key, value) ==
    IF HasKey(d, key)
    THEN List([j \in DOMAIN d |-> IF d[j][1] = key THEN <<key, value>> ELSE d[j]])
    ELSE Append(d, <<key, value>>)

\* the keys of d
KeySet(d) == {d[j][1] : j \in DOMAIN d}

-----------------------------------------------------------------------------
(* Natural numbers of any size, for the 53-bit mantissas of the floats. *)

\* the base of the digits of a natural number
LimbBase == 32768

\* 2^k for k = 0..15
Pow2Table == <<1, 2, 4, 8, 16, 32, 64, 128, 256, 512, 1024, 2048, 4096, 8192,
               16384, 32768>>
Pow2(k) == Pow2Table[k + 1]

\* the larger of two integers
Max(m, n) == IF m >= n THEN m ELSE n

\* the greatest element of a set of positive integers, 0 if it is empty
Greatest(S) == IF S = {} THEN 0 ELSE CHOOSE j \in S : \A m \in S : m <= j

\* a natural number is the sequence of its digits in base LimbBase, least
\* significant first, without leading zeros (0 is <<>>).  BTrim removes the
\* leading zeros of a sequence of digits
BTrim(a) ==
    IF a = <<>> \/ a[Len(a)] # 0 THEN a
    ELSE SubSeq(a, 1, Greatest({j \in DOMAIN a : a[j] # 0}))

\* digit j of a, which is 0 above the top digit
At(a, j) == IF j \in DOMAIN a THEN a[j] ELSE 0

\* the natural number n < 2^30 as digits
BFromInt(n) == BTrim(<<n % LimbBase, n \div LimbBase>>)

\* the sum of digits a and b has a carry into digit j: the digit below
\* makes one, or passes on the one it gets
RECURSIVE AddCarry(_, _, _)
AddCarry(a, b, j) ==
    /\ j > 1
    /\ \/ At(a, j - 1) + At(b, j - 1) >= LimbBase
       \/ At(a, j - 1) + At(b, j - 1) = LimbBase - 1 /\ AddCarry(a, b, j - 1)

\* digit j of a + b
AddDigit(a, b, j) ==
    (At(a, j) + At(b, j) + (IF AddCarry(a, b, j) THEN 1 ELSE 0)) % LimbBase

\* a + b, also for digits a[j] + b[j] up to 2 * LimbBase - 2
BAdd(a, b) ==
    BTrim(List([j \in 1..(Max(Len(a), Len(b)) + 1) |-> AddDigit(a, b, j)]))

\* a - b has a borrow from digit j: the digit below needs one, or passes
\* on the one asked of it
RECURSIVE SubBorrow(_, _, _)
SubBorrow(a, b, j) ==
    /\ j > 1
    /\ \/ At(a, j - 1) < At(b, j - 1)
       \/ At(a, j - 1) = At(b, j - 1) /\ SubBorrow(a, b, j - 1)

\* digit j of a - b
SubDigit(a, b, j) ==
    (At(a, j) - At(b, j) - (IF SubBorrow(a, b, j) THEN 1 ELSE 0) + LimbBase) % LimbBase

\* a - b, for a >= b
BSub(a, b) == BTrim(List([j \in DOMAIN a |-> SubDigit(a, b, j)]))

\* a < b
BLess(a, b) ==
    IF Len(a) # Len(b) THEN Len(a) < Len(b)
    ELSE \E k \in DOMAIN a :
            a[k] < b[k] /\ \A m \in (k + 1)..Len(a) : a[m] = b[m]

\* a * d for a digit d: the low parts of the products a[j] * d, plus their
\* high parts one digit up
BMulSmall(a, d) ==
    BAdd(List([j \in DOMAIN a |-> (a[j] * d) % LimbBase]),
         <<0>> \o [j \in DOMAIN a |-> (a[j] * d) \div LimbBase])

\* acc * LimbBase^k + a * (the lowest k digits of b)
RECURSIVE BMulFrom(_, _, _, _)
BMulFrom(acc, a, b, k) ==
    IF k = 0 THEN acc
    ELSE IF acc = <<>> THEN BMulFrom(BMulSmall(a, b[k]), a, b, k - 1)
    ELSE BMulFrom(BAdd(BMulSmall(a, b[k]), <<0>> \o acc), a, b, k - 1)

\* a * b
BMul(a, b) == BMulFrom(<<>>, a, b, Len(b))

\* k zero digits
Zeros(k) == [j \in 1..k |-> 0]

\* digit j of a * 2^s for s < 15
ShlDigit(a, s, j) ==
    (At(a, j) % Pow2(15 - s)) * Pow2(s) + At(a, j - 1) \div Pow2(15 - s)

\* a * 2^k
BShl(a, k) ==
    IF a = <<>> THEN <<>>
    ELSE Zeros(k \div 15)
         \o BTrim(List([j \in 1..(Len(a) + 1) |-> ShlDigit(a, k % 15, j)]))

\* 2^k
BPow2(k) == Zeros(k \div 15) \o <<Pow2(k % 15)>>

\* a % 2^k, for a >= 2^k
BLow(a, k) ==
    BTrim(SubSeq(a, 1, k \div 15) \o <<a[k \div 15 + 1] % Pow2(k % 15)>>)

\* digit j of a \div 2^s for s < 15
ShrDigit(a, s, j) ==
    At(a, j) \div Pow2(s) + (At(a, j + 1) % Pow2(s)) * Pow2(15 - s)

\* a \div 2^k
BShr(a, k) ==
    BTrim(List([j \in 1..(Len(a) - k \div 15) |->
                   ShrDigit(a, k % 15, j + k \div 15)]))

\* the number of bits of a digit
DigitBits(d) == Cardinality({k \in 0..14 : d >= Pow2(k)})

\* the number of bits of a
BBits(a) == IF a = <<>> THEN 0 ELSE 15 * (Len(a) - 1) + DigitBits(a[Len(a)])

\* the largest q <= guess with q * b <= r
RECURSIVE QuotientDigit(_, _, _)
QuotientDigit(r, b, guess) ==
    IF BLess(r, BMulSmall(b, guess)) THEN QuotientDigit(r, b, guess - 1) ELSE guess

\* the digits of r above the lowest n - 1, for r of at most n + 1 digits
TopDigits(r, n) ==
    IF Len(r) > n THEN r[Len(r)] * LimbBase + r[Len(r) - 1]
    ELSE IF Len(r) = n THEN r[Len(r)]
    ELSE 0

\* a first guess of the quotient digit r \div b, not below it
Guess(r, b) ==
    IF TopDigits(r, Len(b)) \div b[Len(b)] >= LimbBase THEN LimbBase - 1
    ELSE TopDigits(r, Len(b)) \div b[Len(b)]

\* long division of the digits of a (from digit j down) by b, whose top
\* digit is at least LimbBase / 2; q is the quotient and r the remainder so
\* far.  The result is <<quotient, remainder>>
RECURSIVE BDivFrom(_, _, _, _, _)

\* the step of BDivFrom whose quotient digit is d, for the remainder r
BDivDigit(a, b, j, q, r, d) ==
    IF d = 0 THEN BDivFrom(a, b, j - 1, <<0>> \o q, r)
    ELSE BDivFrom(a, b, j - 1, <<d>> \o q, BSub(r, BMulSmall(b, d)))

BDivFrom(a, b, j, q, r) ==
    IF j = 0 THEN <<BTrim(q), r>>
    ELSE BDivDigit(a, b, j, q, BTrim(<<a[j]>> \o r),
                   QuotientDigit(BTrim(<<a[j]>> \o r), b,
                                 Guess(BTrim(<<a[j]>> \o r), b)))

\* <<the quotient of qr, whether the remainder of qr is not 0>>
BInexact(qr) == <<qr[1], qr[2] # <<>>>>

\* BDiv for a divisor b whose top digit is at least LimbBase / 2: the top
\* digits of a, one fewer than b has, are the first remainder
BDivNormal(a, b) ==
    IF Len(a) < Len(b) THEN <<<<>>, a # <<>>>>
    ELSE BInexact(BDivFrom(a, b, Len(a) - Len(b) + 1, <<>>,
                           SubSeq(a, Len(a) - Len(b) + 2, Len(a))))

\* <<a \div b, whether the remainder is not 0>>, for b > 0: both are
\* shifted to bring the top digit of b to LimbBase / 2 or more
BDiv(a, b) ==
    BDivNormal(BShl(a, 15 - DigitBits(b[Len(b)])), BShl(b, 15 - DigitBits(b[Len(b)])))

\* the integer square root of n < 2^16, which is 16 * r4 or up to 15 more
IntSqrtNear(n, r4) ==
    CHOOSE r \in (16 * r4)..(16 * r4 + 15) : r * r <= n /\ n < (r + 1) * (r + 1)

\* the integer square root of n < 2^16
IntSqrt(n) ==
    IntSqrtNear(n, CHOOSE r \in 0..15 : r * r <= n \div 256 /\ n \div 256 < (r + 1) * (r + 1))

\* Newton's iteration for the integer square root of a, from x >= sqrt(a)
RECURSIVE BSqrtFrom(_, _)

\* the step of BSqrtFrom for q = a \div x: the next value (x + q) \div 2 is
\* below x exactly when q is
BSqrtNext(a, x, q) ==
    IF BLess(q, x) THEN BSqrtFrom(a, BShr(BAdd(x, q), 1)) ELSE x

BSqrtFrom(a, x) == BSqrtNext(a, x, BDiv(a, x)[1])

\* the value of the lowest two digits of a
LowTwo(a) == At(a, 2) * LimbBase + At(a, 1)

\* <<x, whether a is not the square of x>>
BSqrtExact(a, x) == <<x, BMul(x, x) # a>>

\* BSqrt from a first value computed on the digits of a above the lowest
\* sh bits, for an even sh
BSqrtShifted(a, sh) ==
    BSqrtExact(a, BSqrtFrom(a, BShl(BFromInt(IntSqrt(LowTwo(BShr(a, sh))) + 1),
                                    sh \div 2)))

\* <<the integer square root of a, whether a is not its square>>, for a
\* of 17 bits or more
BSqrt(a) ==
    BSqrtShifted(a, IF BBits(a) % 2 = 0 THEN BBits(a) - 16 ELSE BBits(a) - 15)

-----------------------------------------------------------------------------
(* Floats: the arithmetic of lines 40-82 on IEEE-754 doubles. *)

\* 0.0
FZero == <<0, 0, <<>>>>

\* 2^52, the least 53-bit number
MinMantissa == <<0, 0, 0, 128>>

\* s * q * 2^e for a q of 53 bits, or of 54 bits when it is 2^53
FNormal(s, q, e) ==
    IF BBits(q) = 54 THEN <<s, e + 1, MinMantissa>> ELSE <<s, e, q>>

\* the quotient q of a division by 2^sh is rounded up: the remainder r is
\* above the half, or it is the half and q is odd or something more was
\* left out (sticky)
RoundsUp(q, r, half, sticky) ==
    BLess(half, r) \/ (r = half /\ (sticky \/ q[1] % 2 = 1))

\* FRound for a v of 53 + sh bits, sh > 0, with q = v \div 2^sh
FRoundCut(s, v, e, sticky, sh, q) ==
    FNormal(s,
            IF RoundsUp(q, BLow(v, sh), BPow2(sh - 1), sticky)
            THEN BAdd(q, <<1>>) ELSE q,
            e + sh)

\* FRound for a v of bits bits
FRoundBits(s, v, e, sticky, bits) ==
    IF bits <= 53 THEN <<s, e - (53 - bits), BShl(v, 53 - bits)>>
    ELSE FRoundCut(s, v, e, sticky, bits - 53, BShr(v, bits - 53))

\* s * v * 2^e, with something more when sticky, rounded to the nearest
\* float, ties to even
FRound(s, v, e, sticky) ==
    IF v = <<>> THEN FZero ELSE FRoundBits(s, v, e, sticky, BBits(v))

\* float(n) for an integer n, |n| < 2^30
FInt(n) ==
    IF n = 0 THEN FZero
    ELSE FRound(IF n < 0 THEN -1 ELSE 1, BFromInt(IF n < 0 THEN 0 - n ELSE n), 0, FALSE)

\* -x
FNeg(x) == <<0 - x[1], x[2], x[3]>>

\* x * y
FMul(x, y) ==
    IF x[1] = 0 \/ y[1] = 0 THEN FZero
    ELSE FRound(x[1] * y[1], BMul(x[3], y[3]), x[2] + y[2], FALSE)

\* s * qr[1] * 2^e rounded, where qr[2] says that qr[1] is not exact
FRoundInexact(s, qr, e) == FRound(s, qr[1], e, qr[2])

\* x / y for y # 0.0
FDiv(x, y) ==
    IF x[1] = 0 THEN FZero
    ELSE FRoundInexact(x[1] * y[1], BDiv(BShl(x[3], 56), y[3]), x[2] - y[2] - 56)

\* sa * a * 2^e + sb * b * 2^e
FAddAligned(sa, a, sb, b, e) ==
    IF sa = sb THEN FRound(sa, BAdd(a, b), e, FALSE)
    ELSE IF a = b THEN FZero
    ELSE IF BLess(b, a) THEN FRound(sa, BSub(a, b), e, FALSE)
    ELSE FRound(sb, BSub(b, a), e, FALSE)

\* hi + lo for an exponent of hi not below that of lo: a lo more than 64
\* binary places below hi counts as one unit 64 places below
FAddOrdered(hi, lo) ==
    IF hi[2] - lo[2] > 64
    THEN FAddAligned(hi[1], BShl(hi[3], 64), lo[1], <<1>>, hi[2] - 64)
    ELSE FAddAligned(hi[1], BShl(hi[3], hi[2] - lo[2]), lo[1], lo[3], lo[2])

\* x + y
FAdd(x, y) ==
    IF x[1] = 0 THEN y
    ELSE IF y[1] = 0 THEN x
    ELSE IF x[2] >= y[2] THEN FAddOrdered(x, y)
    ELSE FAddOrdered(y, x)

\* the mantissa of x is shifted by this before its root is taken, which
\* leaves an even exponent
SqrtShift(x) == IF x[2] % 2 = 0 THEN 56 ELSE 57

\* math.sqrt(x) for x >= 0.0
FSqrt(x) ==
    IF x[1] = 0 THEN FZero
    ELSE FRoundInexact(1, BSqrt(BShl(x[3], SqrtShift(x))), (x[2] - SqrtShift(x)) \div 2)

\* x < y
FLess(x, y) ==
    IF x[1] # y[1] THEN x[1] < y[1]
    ELSE IF x[1] = 0 THEN FALSE
    ELSE IF x[2] # y[2] THEN (x[2] < y[2]) = (x[1] = 1)
    ELSE IF x[3] = y[3] THEN FALSE
    ELSE BLess(x[3], y[3]) = (x[1] = 1)
\* math.log10 on the quotients n / d of the integers n, d in 1..20, as pairs
\* <<x, math.log10(x)>> (the values of the C library's log10)
Log10Table ==
    { <<<<1, -57, <<6554, 13107, 26214, 204>>>>, <<-1, -52, <<24192, 10319, 17427, 166>>>>>>,
      <<<<1, -57, <<12072, 31043, 18970, 215>>>>, <<-1, -52, <<16657, 11255, 22297, 163>>>>>>,
      <<<<1, -57, <<18204, 14563, 18204, 227>>>>, <<-1, -52, <<18814, 16031, 22114, 160>>>>>>,
      <<<<1, -57, <<7710, 15420, 30840, 240>>>>, <<-1, -52, <<32151, 27286, 16300, 157>>>>>>,
      <<<<1, -56, <<0, 0, 0, 128>>>>, <<-1, -52, <<31231, 8510, 4173, 154>>>>>>,
      <<<<1, -56, <<4369, 8738, 17476, 136>>>>, <<-1, -52, <<5888, 8920, 17684, 150>>>>>>,
      <<<<1, -56, <<9362, 9362, 9362, 146>>>>, <<-1, -52, <<17568, 13256, 23081, 146>>>>>>,
      <<<<1, -56, <<15124, 10082, 17644, 157>>>>, <<-1, -52, <<4687, 1912, 19161, 142>>>>>>,
      <<<<1, -56, <<21845, 10922, 21845, 170>>>>, <<-1, -52, <<12927, 7111, 4430, 138>>>>>>,
      <<<<1, -56, <<5958, 26810, 5957, 186>>>>, <<-1, -52, <<17774, 16545, 9773, 133>>>>>>,
      <<<<1, -56, <<6554, 13107, 26214, 204>>>>, <<-1, -52, <<0, 0, 0, 128>>>>>>,
      <<<<1, -56, <<12072, 31043, 18970, 215>>>>, <<-1, -53, <<17698, 1871, 9740, 250>>>>>>,
      <<<<1, -56, <<18204, 14563, 18204, 227>>>>, <<-1, -53, <<22013, 11423, 9374, 244>>>>>>,
      <<<<1, -56, <<7710, 15420, 30840, 240>>>>, <<-1, -53, <<15919, 1166, 30515, 237>>>>>>,
      <<<<1, -55, <<0, 0, 0, 128>>>>, <<-1, -53, <<14078, 29150, 6259, 231>>>>>>,
      <<<<1, -55, <<4369, 8738, 17476, 136>>>>, <<-1, -53, <<28928, 29968, 513, 224>>>>>>,
      <<<<1, -55, <<9362, 9362, 9362, 146>>>>, <<-1, -53, <<19520, 5873, 11308, 216>>>>>>,
      <<<<1, -55, <<13107, 26214, 19660, 153>>>>, <<-1, -53, <<20993, 14927, 30167, 210>>>>>>,
      <<<<1, -55, <<15124, 10082, 17644, 157>>>>, <<-1, -53, <<26527, 15952, 3467, 208>>>>>>,
      <<<<1, -55, <<17246, 6898, 22420, 161>>>>, <<-1, -53, <<5922, 16799, 7139, 205>>>>>>,
      <<<<1, -55, <<21845, 10922, 21845, 170>>>>, <<-1, -53, <<10238, 26351, 6773, 199>>>>>>,
      <<<<1, -55, <<5783, 11565, 23130, 180>>>>, <<-1, -53, <<4144, 16094, 27914, 192>>>>>>,
      <<<<1, -55, <<5958, 26810, 5957, 186>>>>, <<-1, -53, <<19934, 12451, 17460, 189>>>>>>,
      <<<<1, -55, <<0, 0, 0, 192>>>>, <<-1, -53, <<2303, 11310, 3659, 186>>>>>>,
      <<<<1, -55, <<6554, 13107, 26214, 204>>>>, <<-1, -53, <<17152, 12128, 30681, 178>>>>>>,
      <<<<1, -55, <<12072, 31043, 18970, 215>>>>, <<-1, -53, <<2082, 14000, 7653, 173>>>>>>,
      <<<<1, -55, <<14043, 14043, 14043, 219>>>>, <<-1, -53, <<7744, 20801, 8707, 171>>>>>>,
      <<<<1, -55, <<18204, 14563, 18204, 227>>>>, <<-1, -53, <<6398, 23552, 7287, 167>>>>>>,
      <<<<1, -55, <<22686, 15123, 10082, 236>>>>, <<-1, -53, <<14752, 30880, 866, 163>>>>>>,
      <<<<1, -55, <<7710, 15420, 30840, 240>>>>, <<-1, -53, <<303, 13295, 28428, 160>>>>>>,
      <<<<1, -54, <<0, 0, 0, 128>>>>, <<-1, -53, <<31231, 8510, 4173, 154>>>>>>,
      <<<<1, -54, <<3449, 27594, 24144, 134>>>>, <<-1, -53, <<16160, 10382, 13913, 148>>>>>>,
      <<<<1, -54, <<4369, 8738, 17476, 136>>>>, <<-1, -53, <<13312, 9329, 31195, 146>>>>>>,
      <<<<1, -54, <<20852, 11915, 20852, 139>>>>, <<-1, -53, <<8159, 27379, 14859, 144>>>>>>,
      <<<<1, -54, <<7282, 25486, 7281, 142>>>>, <<-1, -53, <<20476, 19934, 13547, 142>>>>>>,
      <<<<1, -54, <<9362, 9362, 9362, 146>>>>, <<-1, -53, <<3904, 18002, 9221, 139>>>>>>,
      <<<<1, -54, <<21203, 9637, 19275, 150>>>>, <<-1, -53, <<14382, 9677, 1920, 136>>>>>>,
      <<<<1, -54, <<13107, 26214, 19660, 153>>>>, <<-1, -53, <<5378, 27056, 28080, 133>>>>>>,
      <<<<1, -54, <<15124, 10082, 17644, 157>>>>, <<-1, -53, <<10911, 28081, 1380, 131>>>>>>,
      <<<<1, -54, <<0, 0, 0, 160>>>>, <<-1, -53, <<12542, 4893, 10433, 129>>>>>>,
      <<<<1, -54, <<17246, 6898, 22420, 161>>>>, <<-1, -53, <<23075, 28927, 5052, 128>>>>>>,
      <<<<1, -54, <<21845, 10922, 21845, 170>>>>, <<-1, -54, <<22014, 11423, 9374, 244>>>>>>,
      <<<<1, -54, <<26214, 19660, 6553, 179>>>>, <<-1, -54, <<24961, 29531, 14324, 233>>>>>>,
      <<<<1, -54, <<5783, 11565, 23130, 180>>>>, <<-1, -54, <<9824, 23677, 18887, 231>>>>>>,
      <<<<1, -54, <<28087, 28086, 28086, 182>>>>, <<-1, -54, <<3196, 28769, 30962, 228>>>>>>,
      <<<<1, -54, <<5958, 26810, 5957, 186>>>>, <<-1, -54, <<8636, 16392, 30747, 224>>>>>>,
      <<<<1, -54, <<31043, 18970, 20695, 188>>>>, <<-1, -54, <<27588, 506, 1037, 222>>>>>>,
      <<<<1, -54, <<0, 0, 0, 192>>>>, <<-1, -54, <<6144, 14109, 3145, 218>>>>>>,
      <<<<1, -54, <<2521, 12603, 30247, 196>>>>, <<-1, -54, <<17212, 16159, 15281, 212>>>>>>,
      <<<<1, -54, <<3641, 29127, 3640, 199>>>>, <<-1, -54, <<3450, 19611, 305, 210>>>>>>,
      <<<<1, -54, <<6554, 13107, 26214, 204>>>>, <<-1, -54, <<3074, 15746, 24421, 203>>>>>>,
      <<<<1, -54, <<23130, 13492, 26985, 210>>>>, <<-1, -54, <<24031, 31864, 9818, 197>>>>>>,
      <<<<1, -54, <<10923, 21845, 10922, 213>>>>, <<-1, -54, <<17402, 4188, 21894, 194>>>>>>,
      <<<<1, -54, <<12072, 31043, 18970, 215>>>>, <<-1, -54, <<5702, 19489, 11133, 192>>>>>>,
      <<<<1, -54, <<14043, 14043, 14043, 219>>>>, <<-1, -54, <<17026, 323, 13242, 188>>>>>>,
      <<<<1, -54, <<0, 0, 0, 224>>>>, <<-1, -54, <<20350, 22296, 26844, 183>>>>>>,
      <<<<1, -54, <<18204, 14563, 18204, 227>>>>, <<-1, -54, <<14333, 5825, 10402, 180>>>>>>,
      <<<<1, -54, <<19661, 6553, 13107, 230>>>>, <<-1, -54, <<19973, 18431, 18192, 177>>>>>>,
      <<<<1, -54, <<23831, 8936, 23831, 232>>>>, <<-1, -54, <<4026, 9157, 10499, 175>>>>>>,
      <<<<1, -54, <<22686, 15123, 10082, 236>>>>, <<-1, -54, <<31040, 20481, 30328, 171>>>>>>,
      <<<<1, -54, <<24030, 15291, 30583, 238>>>>, <<-1, -54, <<17280, 23933, 15352, 169>>>>>>,
      <<<<1, -54, <<7710, 15420, 30840, 240>>>>, <<-1, -54, <<2144, 18079, 19915, 167>>>>>>,
      <<<<1, -54, <<25869, 10347, 17246, 242>>>>, <<-1, -54, <<22600, 22174, 4904, 166>>>>>>,
      <<<<1, -53, <<0, 0, 0, 128>>>>, <<-1, -54, <<31231, 8510, 4173, 154>>>>>>,
      <<<<1, -53, <<3449, 27594, 24144, 134>>>>, <<-1, -54, <<1090, 12254, 23653, 142>>>>>>,
      <<<<1, -53, <<28913, 25057, 17347, 135>>>>, <<-1, -54, <<19043, 20764, 13686, 141>>>>>>,
      <<<<1, -53, <<4369, 8738, 17476, 136>>>>, <<-1, -54, <<28162, 10147, 25449, 139>>>>>>,
      <<<<1, -53, <<5041, 25206, 27726, 137>>>>, <<-1, -54, <<12479, 28669, 21259, 137>>>>>>,
      <<<<1, -53, <<20852, 11915, 20852, 139>>>>, <<-1, -54, <<17855, 13479, 25546, 134>>>>>>,
      <<<<1, -53, <<6554, 13107, 26214, 140>>>>, <<-1, -54, <<25668, 7864, 30615, 132>>>>>>,
      <<<<1, -53, <<7282, 25486, 7281, 142>>>>, <<-1, -54, <<9720, 31358, 22921, 130>>>>>>,
      <<<<1, -53, <<0, 0, 0, 144>>>>, <<-1, -55, <<30722, 22392, 28656, 255>>>>>>,
      <<<<1, -53, <<9362, 9362, 9362, 146>>>>, <<-1, -55, <<18690, 22218, 28539, 248>>>>>>,
      <<<<1, -53, <<10348, 17246, 6898, 148>>>>, <<-1, -55, <<23823, 23215, 1886, 243>>>>>>,
      <<<<1, -53, <<10923, 21845, 10922, 149>>>>, <<-1, -55, <<25335, 628, 22977, 239>>>>>>,
      <<<<1, -53, <<21203, 9637, 19275, 150>>>>, <<-1, -55, <<27833, 21687, 32102, 235>>>>>>,
      <<<<1, -53, <<13107, 26214, 19660, 153>>>>, <<-1, -55, <<24584, 25666, 5672, 227>>>>>>,
      <<<<1, -53, <<14564, 18204, 14563, 156>>>>, <<-1, -55, <<8316, 28656, 423, 219>>>>>>,
      <<<<1, -53, <<15124, 10082, 17644, 157>>>>, <<-1, -55, <<13951, 29767, 29944, 215>>>>>>,
      <<<<1, -53, <<0, 0, 0, 160>>>>, <<-1, -55, <<20472, 2551, 618, 209>>>>>>,
      <<<<1, -53, <<17246, 6898, 22420, 161>>>>, <<-1, -55, <<29838, 384, 11865, 204>>>>>>,
      <<<<1, -53, <<29789, 2978, 29789, 162>>>>, <<-1, -55, <<31352, 10565, 187, 201>>>>>>,
      <<<<1, -53, <<18725, 18724, 18724, 164>>>>, <<-1, -55, <<19717, 27589, 16081, 196>>>>>>,
      <<<<1, -53, <<13493, 26985, 21202, 165>>>>, <<-1, -55, <<16708, 20395, 19450, 193>>>>>>,
      <<<<1, -53, <<19661, 6553, 13107, 166>>>>, <<-1, -55, <<24963, 1724, 18898, 191>>>>>>,
      <<<<1, -53, <<21845, 10922, 21845, 170>>>>, <<-1, -55, <<14333, 5825, 10402, 180>>>>>>,
      <<<<1, -53, <<24145, 29318, 5173, 175>>>>, <<-1, -55, <<30217, 9210, 25090, 168>>>>>>,
      <<<<1, -53, <<0, 0, 0, 176>>>>, <<-1, -55, <<9347, 1259, 20734, 166>>>>>>,
      <<<<1, -53, <<25206, 27726, 7561, 177>>>>, <<-1, -55, <<14982, 2370, 17487, 163>>>>>>,
      <<<<1, -53, <<26214, 19660, 6553, 179>>>>, <<-1, -55, <<20228, 9273, 20303, 158>>>>>>,
      <<<<1, -53, <<5783, 11565, 23130, 180>>>>, <<-1, -55, <<22722, 30332, 29428, 154>>>>>>,
      <<<<1, -53, <<28087, 28086, 28086, 182>>>>, <<-1, -55, <<9466, 7748, 20811, 149>>>>>>,
      <<<<1, -53, <<29127, 3640, 29127, 184>>>>, <<-1, -55, <<14713, 14651, 23627, 144>>>>>>,
      <<<<1, -53, <<5958, 26810, 5957, 186>>>>, <<-1, -55, <<20346, 15762, 20380, 141>>>>>>,
      <<<<1, -53, <<30583, 28398, 24029, 187>>>>, <<-1, -55, <<3209, 4533, 30518, 137>>>>>>,
      <<<<1, -53, <<31043, 18970, 20695, 188>>>>, <<-1, -55, <<25482, 16759, 26495, 135>>>>>>,
      <<<<1, -53, <<0, 0, 0, 192>>>>, <<-1, -56, <<30722, 22392, 28656, 255>>>>>>,
      <<<<1, -53, <<30840, 28912, 25057, 195>>>>, <<-1, -56, <<13442, 12781, 19772, 238>>>>>>,
      <<<<1, -53, <<2521, 12603, 30247, 196>>>>, <<-1, -56, <<9458, 30594, 11664, 233>>>>>>,
      <<<<1, -53, <<3641, 29127, 3640, 199>>>>, <<-1, -56, <<19950, 11632, 17297, 223>>>>>>,
      <<<<1, -53, <<4681, 4681, 4681, 201>>>>, <<-1, -56, <<29453, 12911, 16318, 214>>>>>>,
      <<<<1, -53, <<5174, 8623, 3449, 202>>>>, <<-1, -56, <<8463, 4597, 8273, 210>>>>>>,
      <<<<1, -53, <<6554, 13107, 26214, 204>>>>, <<-1, -56, <<18443, 28940, 15456, 198>>>>>>,
      <<<<1, -53, <<0, 0, 0, 208>>>>, <<-1, -56, <<31483, 7276, 22339, 184>>>>>>,
      <<<<1, -53, <<14895, 17873, 14894, 209>>>>, <<-1, -56, <<9983, 9499, 15845, 178>>>>>>,
      <<<<1, -53, <<23130, 13492, 26985, 210>>>>, <<-1, -56, <<3967, 27879, 22582, 172>>>>>>,
      <<<<1, -53, <<10923, 21845, 10922, 213>>>>, <<-1, -56, <<10219, 15478, 5347, 162>>>>>>,
      <<<<1, -53, <<12072, 31043, 18970, 215>>>>, <<-1, -56, <<28954, 11144, 27841, 152>>>>>>,
      <<<<1, -53, <<12603, 30247, 20164, 216>>>>, <<-1, -56, <<19979, 28009, 19128, 148>>>>>>,
      <<<<1, -53, <<13107, 26214, 19660, 217>>>>, <<-1, -56, <<3721, 23436, 18023, 144>>>>>>,
      <<<<1, -53, <<14043, 14043, 14043, 219>>>>, <<-1, -56, <<8715, 18, 3507, 137>>>>>>,
      <<<<1, -53, <<15292, 30583, 28398, 221>>>>, <<-1, -57, <<5639, 27649, 18278, 254>>>>>>,
      <<<<1, -53, <<0, 0, 0, 224>>>>, <<-1, -57, <<11252, 11981, 17531, 237>>>>>>,
      <<<<1, -53, <<15420, 30840, 28912, 225>>>>, <<-1, -57, <<21239, 30681, 21265, 222>>>>>>,
      <<<<1, -53, <<18204, 14563, 18204, 227>>>>, <<-1, -57, <<28653, 11283, 17063, 209>>>>>>,
      <<<<1, -53, <<18971, 20695, 1724, 229>>>>, <<-1, -57, <<28456, 11280, 28048, 197>>>>>>,
      <<<<1, -53, <<19661, 6553, 13107, 230>>>>, <<-1, -57, <<8238, 13829, 13850, 187>>>>>>,
      <<<<1, -53, <<23831, 8936, 23831, 232>>>>, <<-1, -57, <<11732, 5169, 17840, 169>>>>>>,
      <<<<1, -53, <<21845, 10922, 21845, 234>>>>, <<-1, -57, <<8712, 25787, 25622, 154>>>>>>,
      <<<<1, -53, <<22686, 15123, 10082, 236>>>>, <<-1, -57, <<31244, 30231, 12634, 142>>>>>>,
      <<<<1, -53, <<23406, 23405, 23405, 237>>>>, <<-1, -57, <<18945, 2572, 27147, 131>>>>>>,
      <<<<1, -53, <<24030, 15291, 30583, 238>>>>, <<-1, -58, <<6155, 17385, 15031, 245>>>>>>,
      <<<<1, -53, <<0, 0, 0, 240>>>>, <<-1, -58, <<16348, 6577, 20031, 229>>>>>>,
      <<<<1, -53, <<7710, 15420, 30840, 240>>>>, <<-1, -58, <<26129, 22017, 22500, 215>>>>>>,
      <<<<1, -53, <<25486, 7281, 25486, 241>>>>, <<-1, -58, <<31175, 549, 11626, 203>>>>>>,
      <<<<1, -53, <<25869, 10347, 17246, 242>>>>, <<-1, -58, <<25747, 22011, 11702, 192>>>>>>,
      <<<<1, -53, <<26214, 19660, 6553, 243>>>>, <<-1, -58, <<23512, 5646, 15998, 182>>>>>>,
      <<<<1, -52, <<0, 0, 0, 128>>>>, <<0, 0, <<>>>>>>,
      <<<<1, -52, <<3449, 27594, 24144, 134>>>>, <<1, -58, <<23500, 5646, 15998, 182>>>>>>,
      <<<<1, -52, <<3641, 29127, 3640, 135>>>>, <<1, -58, <<25744, 22011, 11702, 192>>>>>>,
      <<<<1, -52, <<28913, 25057, 17347, 135>>>>, <<1, -58, <<31173, 549, 11626, 203>>>>>>,
      <<<<1, -52, <<0, 0, 0, 136>>>>, <<1, -58, <<26127, 22017, 22500, 215>>>>>>,
      <<<<1, -52, <<4369, 8738, 17476, 136>>>>, <<1, -58, <<16346, 6577, 20031, 229>>>>>>,
      <<<<1, -52, <<4681, 4681, 4681, 137>>>>, <<1, -58, <<6153, 17385, 15031, 245>>>>>>,
      <<<<1, -52, <<5041, 25206, 27726, 137>>>>, <<1, -57, <<18944, 2572, 27147, 131>>>>>>,
      <<<<1, -52, <<21845, 10922, 21845, 138>>>>, <<1, -57, <<31243, 30231, 12634, 142>>>>>>,
      <<<<1, -52, <<20852, 11915, 20852, 139>>>>, <<1, -57, <<8705, 25787, 25622, 154>>>>>>,
      <<<<1, -52, <<6554, 13107, 26214, 140>>>>, <<1, -57, <<11734, 5169, 17840, 169>>>>>>,
      <<<<1, -52, <<7282, 25486, 7281, 142>>>>, <<1, -57, <<8242, 13829, 13850, 187>>>>>>,
      <<<<1, -52, <<25058, 17347, 1927, 143>>>>, <<1, -57, <<28457, 11280, 28048, 197>>>>>>,
      <<<<1, -52, <<0, 0, 0, 144>>>>, <<1, -57, <<28650, 11283, 17063, 209>>>>>>,
      <<<<1, -52, <<8738, 17476, 2184, 145>>>>, <<1, -57, <<21236, 30681, 21265, 222>>>>>>,
      <<<<1, -52, <<9362, 9362, 9362, 146>>>>, <<1, -57, <<11249, 11981, 17531, 237>>>>>>,
      <<<<1, -52, <<10082, 17644, 22685, 147>>>>, <<1, -57, <<5636, 27649, 18278, 254>>>>>>,
      <<<<1, -52, <<10923, 21845, 10922, 149>>>>, <<1, -56, <<8715, 18, 3507, 137>>>>>>,
      <<<<1, -52, <<21203, 9637, 19275, 150>>>>, <<1, -56, <<3721, 23436, 18023, 144>>>>>>,
      <<<<1, -52, <<8937, 23831, 8936, 151>>>>, <<1, -56, <<19980, 28009, 19128, 148>>>>>>,
      <<<<1, -52, <<0, 0, 0, 152>>>>, <<1, -56, <<28952, 11144, 27841, 152>>>>>>,
      <<<<1, -52, <<13107, 26214, 19660, 153>>>>, <<1, -56, <<10219, 15478, 5347, 162>>>>>>,
      <<<<1, -52, <<14043, 14043, 14043, 155>>>>, <<1, -56, <<3964, 27879, 22582, 172>>>>>>,
      <<<<1, -52, <<14564, 18204, 14563, 156>>>>, <<1, -56, <<9987, 9499, 15845, 178>>>>>>,
      <<<<1, -52, <<15124, 10082, 17644, 157>>>>, <<1, -56, <<31485, 7276, 22339, 184>>>>>>,
      <<<<1, -52, <<0, 0, 0, 160>>>>, <<1, -56, <<18445, 28940, 15456, 198>>>>>>,
      <<<<1, -52, <<17476, 2184, 4369, 162>>>>, <<1, -56, <<8461, 4597, 8273, 210>>>>>>,
      <<<<1, -52, <<29789, 2978, 29789, 162>>>>, <<1, -56, <<29451, 12911, 16318, 214>>>>>>,
      <<<<1, -52, <<18725, 18724, 18724, 164>>>>, <<1, -56, <<19954, 11632, 17297, 223>>>>>>,
      <<<<1, -52, <<19661, 6553, 13107, 166>>>>, <<1, -56, <<9460, 30594, 11664, 233>>>>>>,
      <<<<1, -52, <<20165, 2520, 12603, 167>>>>, <<1, -56, <<13440, 12781, 19772, 238>>>>>>,
      <<<<1, -52, <<21845, 10922, 21845, 170>>>>, <<1, -56, <<30721, 22392, 28656, 255>>>>>>,
      <<<<1, -52, <<23406, 23405, 23405, 173>>>>, <<1, -55, <<25482, 16759, 26495, 135>>>>>>,
      <<<<1, -52, <<17873, 14894, 17873, 174>>>>, <<1, -55, <<3206, 4533, 30518, 137>>>>>>,
      <<<<1, -52, <<0, 0, 0, 176>>>>, <<1, -55, <<20346, 15762, 20380, 141>>>>>>,
      <<<<1, -52, <<25206, 27726, 7561, 177>>>>, <<1, -55, <<14712, 14651, 23627, 144>>>>>>,
      <<<<1, -52, <<26214, 19660, 6553, 179>>>>, <<1, -55, <<9466, 7748, 20811, 149>>>>>>,
      <<<<1, -52, <<10923, 21845, 10922, 181>>>>, <<1, -55, <<22724, 30332, 29428, 154>>>>>>,
      <<<<1, -52, <<28087, 28086, 28086, 182>>>>, <<1, -55, <<20227, 9273, 20303, 158>>>>>>,
      <<<<1, -52, <<29127, 3640, 29127, 184>>>>, <<1, -55, <<14981, 2370, 17487, 163>>>>>>,
      <<<<1, -52, <<5958, 26810, 5957, 186>>>>, <<1, -55, <<9347, 1259, 20734, 166>>>>>>,
      <<<<1, -52, <<30247, 20164, 2520, 187>>>>, <<1, -55, <<30217, 9210, 25090, 168>>>>>>,
      <<<<1, -52, <<0, 0, 0, 192>>>>, <<1, -55, <<14332, 5825, 10402, 180>>>>>>,
      <<<<1, -52, <<2521, 12603, 30247, 196>>>>, <<1, -55, <<24965, 1724, 18898, 191>>>>>>,
      <<<<1, -52, <<26810, 5957, 26810, 197>>>>, <<1, -55, <<16708, 20395, 19450, 193>>>>>>,
      <<<<1, -52, <<3641, 29127, 3640, 199>>>>, <<1, -55, <<19718, 27589, 16081, 196>>>>>>,
      <<<<1, -52, <<4681, 4681, 4681, 201>>>>, <<1, -55, <<31351, 10565, 187, 201>>>>>>,
      <<<<1, -52, <<21845, 10922, 21845, 202>>>>, <<1, -55, <<29837, 384, 11865, 204>>>>>>,
      <<<<1, -52, <<6554, 13107, 26214, 204>>>>, <<1, -55, <<20473, 2551, 618, 209>>>>>>,
      <<<<1, -52, <<0, 0, 0, 208>>>>, <<1, -55, <<13952, 29767, 29944, 215>>>>>>,
      <<<<1, -52, <<14895, 17873, 14894, 209>>>>, <<1, -55, <<8319, 28656, 423, 219>>>>>>,
      <<<<1, -52, <<10923, 21845, 10922, 213>>>>, <<1, -55, <<24584, 25666, 5672, 227>>>>>>,
      <<<<1, -52, <<13107, 26214, 19660, 217>>>>, <<1, -55, <<27833, 21687, 32102, 235>>>>>>,
      <<<<1, -52, <<14043, 14043, 14043, 219>>>>, <<1, -55, <<25335, 628, 22977, 239>>>>>>,
      <<<<1, -52, <<2979, 29789, 2978, 221>>>>, <<1, -55, <<23823, 23215, 1886, 243>>>>>>,
      <<<<1, -52, <<0, 0, 0, 224>>>>, <<1, -55, <<18688, 22218, 28539, 248>>>>>>,
      <<<<1, -52, <<18204, 14563, 18204, 227>>>>, <<1, -55, <<30722, 22392, 28656, 255>>>>>>,
      <<<<1, -52, <<19661, 6553, 13107, 230>>>>, <<1, -54, <<9721, 31358, 22921, 130>>>>>>,
      <<<<1, -52, <<23831, 8936, 23831, 232>>>>, <<1, -54, <<25668, 7864, 30615, 132>>>>>>,
      <<<<1, -52, <<21845, 10922, 21845, 234>>>>, <<1, -54, <<17854, 13479, 25546, 134>>>>>>,
      <<<<1, -52, <<23406, 23405, 23405, 237>>>>, <<1, -54, <<12479, 28669, 21259, 137>>>>>>,
      <<<<1, -52, <<0, 0, 0, 240>>>>, <<1, -54, <<28161, 10147, 25449, 139>>>>>>,
      <<<<1, -52, <<25486, 7281, 25486, 241>>>>, <<1, -54, <<19043, 20764, 13686, 141>>>>>>,
      <<<<1, -52, <<26214, 19660, 6553, 243>>>>, <<1, -54, <<1089, 12254, 23653, 142>>>>>>,
      <<<<1, -51, <<0, 0, 0, 128>>>>, <<1, -54, <<31231, 8510, 4173, 154>>>>>>,
      <<<<1, -51, <<3641, 29127, 3640, 135>>>>, <<1, -54, <<22600, 22174, 4904, 166>>>>>>,
      <<<<1, -51, <<0, 0, 0, 136>>>>, <<1, -54, <<2144, 18079, 19915, 167>>>>>>,
      <<<<1, -51, <<4681, 4681, 4681, 137>>>>, <<1, -54, <<17280, 23933, 15352, 169>>>>>>,
      <<<<1, -51, <<21845, 10922, 21845, 138>>>>, <<1, -54, <<31040, 20481, 30328, 171>>>>>>,
      <<<<1, -51, <<6554, 13107, 26214, 140>>>>, <<1, -54, <<4026, 9157, 10499, 175>>>>>>,
      <<<<1, -51, <<7282, 25486, 7281, 142>>>>, <<1, -54, <<19973, 18431, 18192, 177>>>>>>,
      <<<<1, -51, <<0, 0, 0, 144>>>>, <<1, -54, <<14332, 5825, 10402, 180>>>>>>,
      <<<<1, -51, <<9362, 9362, 9362, 146>>>>, <<1, -54, <<20349, 22296, 26844, 183>>>>>>,
      <<<<1, -51, <<10923, 21845, 10922, 149>>>>, <<1, -54, <<17026, 323, 13242, 188>>>>>>,
      <<<<1, -51, <<0, 0, 0, 152>>>>, <<1, -54, <<5701, 19489, 11133, 192>>>>>>,
      <<<<1, -51, <<13107, 26214, 19660, 153>>>>, <<1, -54, <<17402, 4188, 21894, 194>>>>>>,
      <<<<1, -51, <<14043, 14043, 14043, 155>>>>, <<1, -54, <<24030, 31864, 9818, 197>>>>>>,
      <<<<1, -51, <<0, 0, 0, 160>>>>, <<1, -54, <<3074, 15746, 24421, 203>>>>>>,
      <<<<1, -51, <<18725, 18724, 18724, 164>>>>, <<1, -54, <<3452, 19611, 305, 210>>>>>>,
      <<<<1, -51, <<19661, 6553, 13107, 166>>>>, <<1, -54, <<17212, 16159, 15281, 212>>>>>>,
      <<<<1, -51, <<21845, 10922, 21845, 170>>>>, <<1, -54, <<6143, 14109, 3145, 218>>>>>>,
      <<<<1, -51, <<23406, 23405, 23405, 173>>>>, <<1, -54, <<27588, 506, 1037, 222>>>>>>,
      <<<<1, -51, <<0, 0, 0, 176>>>>, <<1, -54, <<8636, 16392, 30747, 224>>>>>>,
      <<<<1, -51, <<26214, 19660, 6553, 179>>>>, <<1, -54, <<3196, 28769, 30962, 228>>>>>>,
      <<<<1, -51, <<10923, 21845, 10922, 181>>>>, <<1, -54, <<9825, 23677, 18887, 231>>>>>>,
      <<<<1, -51, <<28087, 28086, 28086, 182>>>>, <<1, -54, <<24960, 29531, 14324, 233>>>>>>,
      <<<<1, -51, <<0, 0, 0, 192>>>>, <<1, -54, <<22013, 11423, 9374, 244>>>>>>,
      <<<<1, -51, <<21845, 10922, 21845, 202>>>>, <<1, -53, <<23075, 28927, 5052, 128>>>>>>,
      <<<<1, -51, <<6554, 13107, 26214, 204>>>>, <<1, -53, <<12542, 4893, 10433, 129>>>>>>,
      <<<<1, -51, <<0, 0, 0, 208>>>>, <<1, -53, <<10912, 28081, 1380, 131>>>>>>,
      <<<<1, -51, <<10923, 21845, 10922, 213>>>>, <<1, -53, <<5378, 27056, 28080, 133>>>>>>,
      <<<<1, -51, <<13107, 26214, 19660, 217>>>>, <<1, -53, <<14382, 9677, 1920, 136>>>>>>,
      <<<<1, -51, <<0, 0, 0, 224>>>>, <<1, -53, <<3904, 18002, 9221, 139>>>>>>,
      <<<<1, -51, <<19661, 6553, 13107, 230>>>>, <<1, -53, <<20476, 19934, 13547, 142>>>>>>,
      <<<<1, -51, <<21845, 10922, 21845, 234>>>>, <<1, -53, <<8158, 27379, 14859, 144>>>>>>,
      <<<<1, -51, <<0, 0, 0, 240>>>>, <<1, -53, <<13312, 9329, 31195, 146>>>>>>,
      <<<<1, -51, <<26214, 19660, 6553, 243>>>>, <<1, -53, <<16160, 10382, 13913, 148>>>>>>,
      <<<<1, -50, <<0, 0, 0, 128>>>>, <<1, -53, <<31231, 8510, 4173, 154>>>>>>,
      <<<<1, -50, <<0, 0, 0, 136>>>>, <<1, -53, <<303, 13295, 28428, 160>>>>>>,
      <<<<1, -50, <<21845, 10922, 21845, 138>>>>, <<1, -53, <<14752, 30880, 866, 163>>>>>>,
      <<<<1, -50, <<0, 0, 0, 144>>>>, <<1, -53, <<6398, 23552, 7287, 167>>>>>>,
      <<<<1, -50, <<10923, 21845, 10922, 149>>>>, <<1, -53, <<7744, 20801, 8707, 171>>>>>>,
      <<<<1, -50, <<0, 0, 0, 152>>>>, <<1, -53, <<2082, 14000, 7653, 173>>>>>>,
      <<<<1, -50, <<0, 0, 0, 160>>>>, <<1, -53, <<17153, 12128, 30681, 178>>>>>>,
      <<<<1, -50, <<21845, 10922, 21845, 170>>>>, <<1, -53, <<2303, 11310, 3659, 186>>>>>>,
      <<<<1, -50, <<0, 0, 0, 176>>>>, <<1, -53, <<19934, 12451, 17460, 189>>>>>>,
      <<<<1, -50, <<10923, 21845, 10922, 181>>>>, <<1, -53, <<4144, 16094, 27914, 192>>>>>>,
      <<<<1, -50, <<0, 0, 0, 192>>>>, <<1, -53, <<10238, 26351, 6773, 199>>>>>>,
      <<<<1, -50, <<21845, 10922, 21845, 202>>>>, <<1, -53, <<5922, 16799, 7139, 205>>>>>>,
      <<<<1, -50, <<0, 0, 0, 208>>>>, <<1, -53, <<26527, 15952, 3467, 208>>>>>>,
      <<<<1, -50, <<10923, 21845, 10922, 213>>>>, <<1, -53, <<20993, 14927, 30167, 210>>>>>>,
      <<<<1, -50, <<0, 0, 0, 224>>>>, <<1, -53, <<19519, 5873, 11308, 216>>>>>>,
      <<<<1, -50, <<0, 0, 0, 240>>>>, <<1, -53, <<28928, 29968, 513, 224>>>>>>,
      <<<<1, -49, <<0, 0, 0, 128>>>>, <<1, -53, <<14078, 29150, 6259, 231>>>>>>,
      <<<<1, -49, <<0, 0, 0, 136>>>>, <<1, -53, <<15919, 1166, 30515, 237>>>>>>,
      <<<<1, -49, <<0, 0, 0, 144>>>>, <<1, -53, <<22013, 11423, 9374, 244>>>>>>,
      <<<<1, -49, <<0, 0, 0, 152>>>>, <<1, -53, <<17697, 1871, 9740, 250>>>>>>,
      <<<<1, -49, <<0, 0, 0, 160>>>>, <<1, -52, <<0, 0, 0, 128>>>>>>,
      <<<<1, -49, <<0, 0, 0, 176>>>>, <<1, -52, <<17774, 16545, 9773, 133>>>>>>,
      <<<<1, -49, <<0, 0, 0, 192>>>>, <<1, -52, <<12927, 7111, 4430, 138>>>>>>,
      <<<<1, -49, <<0, 0, 0, 208>>>>, <<1, -52, <<4687, 1912, 19161, 142>>>>>>,
      <<<<1, -49, <<0, 0, 0, 224>>>>, <<1, -52, <<17567, 13256, 23081, 146>>>>>>,
      <<<<1, -49, <<0, 0, 0, 240>>>>, <<1, -52, <<5888, 8920, 17684, 150>>>>>>,
      <<<<1, -48, <<0, 0, 0, 128>>>>, <<1, -52, <<31231, 8510, 4173, 154>>>>>>,
      <<<<1, -48, <<0, 0, 0, 136>>>>, <<1, -52, <<32151, 27286, 16300, 157>>>>>>,
      <<<<1, -48, <<0, 0, 0, 144>>>>, <<1, -52, <<18814, 16031, 22114, 160>>>>>>,
      <<<<1, -48, <<0, 0, 0, 152>>>>, <<1, -52, <<16656, 11255, 22297, 163>>>>>>,
      <<<<1, -48, <<0, 0, 0, 160>>>>, <<1, -52, <<24192, 10319, 17427, 166>>>>>> }

\* the weights w (document weights 1 + log10(tf) and query weights
\* (1 + log10(tf)) * log10(n / d) for tf, n, d in 1..20) whose w ** 2, the C
\* library's pow(w, 2.0), is not the correctly rounded square, as pairs
\* <<w, w ** 2>>
PowTable ==
    { <<<<1, -56, <<4237, 5075, 16303, 150>>>>, <<1, -60, <<17882, 29137, 31105, 176>>>>>> }

\* math.log10(x), lines 40, 68 and 70, for x > 0
Log10(x) == (CHOOSE p \in Log10Table : p[1] = x)[2]

\* w ** 2, lines 49 and 74: the correctly rounded square, but for PowTable
PowTwo(w) ==
    IF \E p \in PowTable : p[1] = w
    THEN (CHOOSE p \in PowTable : p[1] = w)[2]
    ELSE FMul(w, w)

-----------------------------------------------------------------------------
(* clean_text, lines 8-11.  A character is its Unicode code point; the     *)
(* tables are those of CPython 3.11 (Unicode 14.0.0).                      *)

\* the characters a-z and 0-9 of the pattern of line 10
AsciiLower == 97..122
AsciiDigits == 48..57

\* the characters \s matches in a str pattern, which are also the characters
\* str.split() splits on (str.isspace): \t \n \v \f \r, U+001C..U+001F,
\* space, U+0085, U+00A0, U+1680, U+2000..U+200A, U+2028, U+2029, U+202F,
\* U+205F, U+3000
Whitespace ==
    (9..13) \cup (28..32) \cup {133, 160, 5760} \cup (8192..8202)
        \cup {8232, 8233, 8239, 8287, 12288}

\* c lies in one of the ranges <<lo, hi, ...>> of R
InRanges(c, R) == \E r \in R : r[1] <= c /\ c <= r[2]

\* str.lower() of one character: c + delta for every c = lo, lo + step, ...
\* up to hi of a range <<lo, hi, step, delta>>
LowerRanges ==
    { <<65, 90, 1, 32>>, <<192, 214, 1, 32>>, <<216, 222, 1, 32>>, <<256, 302, 2, 1>>, <<306, 310, 2, 1>>,
      <<313, 327, 2, 1>>, <<330, 374, 2, 1>>, <<376, 376, 1, -121>>, <<377, 381, 2, 1>>, <<385, 385, 1, 210>>,
      <<386, 388, 2, 1>>, <<390, 390, 1, 206>>, <<391, 391, 1, 1>>, <<393, 394, 1, 205>>, <<395, 395, 1, 1>>,
      <<398, 398, 1, 79>>, <<399, 399, 1, 202>>, <<400, 400, 1, 203>>, <<401, 401, 1, 1>>, <<403, 403, 1, 205>>,
      <<404, 404, 1, 207>>, <<406, 406, 1, 211>>, <<407, 407, 1, 209>>, <<408, 408, 1, 1>>, <<412, 412, 1, 211>>,
      <<413, 413, 1, 213>>, <<415, 415, 1, 214>>, <<416, 420, 2, 1>>, <<422, 422, 1, 218>>, <<423, 423, 1, 1>>,
      <<425, 425, 1, 218>>, <<428, 428, 1, 1>>, <<430, 430, 1, 218>>, <<431, 431, 1, 1>>, <<433, 434, 1, 217>>,
      <<435, 437, 2, 1>>, <<439, 439, 1, 219>>, <<440, 440, 1, 1>>, <<444, 444, 1, 1>>, <<452, 452, 1, 2>>,
      <<453, 453, 1, 1>>, <<455, 455, 1, 2>>, <<456, 456, 1, 1>>, <<458, 458, 1, 2>>, <<459, 475, 2, 1>>,
      <<478, 494, 2, 1>>, <<497, 497, 1, 2>>, <<498, 500, 2, 1>>, <<502, 502, 1, -97>>, <<503, 503, 1, -56>>,
      <<504, 542, 2, 1>>, <<544, 544, 1, -130>>, <<546, 562, 2, 1>>, <<570, 570, 1, 10795>>, <<571, 571, 1, 1>>,
      <<573, 573, 1, -163>>, <<574, 574, 1, 10792>>, <<577, 577, 1, 1>>, <<579, 579, 1, -195>>, <<580, 580, 1, 69>>,
      <<581, 581, 1, 71>>, <<582, 590, 2, 1>>, <<880, 882, 2, 1>>, <<886, 886, 1, 1>>, <<895, 895, 1, 116>>,
      <<902, 902, 1, 38>>, <<904, 906, 1, 37>>, <<908, 908, 1, 64>>, <<910, 911, 1, 63>>, <<913, 929, 1, 32>>,
      <<932, 939, 1, 32>>, <<975, 975, 1, 8>>, <<984, 1006, 2, 1>>, <<1012, 1012, 1, -60>>, <<1015, 1015, 1, 1>>,
      <<1017, 1017, 1, -7>>, <<1018, 1018, 1, 1>>, <<1021, 1023, 1, -130>>, <<1024, 1039, 1, 80>>, <<1040, 1071, 1, 32>>,
      <<1120, 1152, 2, 1>>, <<1162, 1214, 2, 1>>, <<1216, 1216, 1, 15>>, <<1217, 1229, 2, 1>>, <<1232, 1326, 2, 1>>,
      <<1329, 1366, 1, 48>>, <<4256, 4293, 1, 7264>>, <<4295, 4295, 1, 7264>>, <<4301, 4301, 1, 7264>>, <<5024, 5103, 1, 38864>>,
      <<5104, 5109, 1, 8>>, <<7312, 7354, 1, -3008>>, <<7357, 7359, 1, -3008>>, <<7680, 7828, 2, 1>>, <<7838, 7838, 1, -7615>>,
      <<7840, 7934, 2, 1>>, <<7944, 7951, 1, -8>>, <<7960, 7965, 1, -8>>, <<7976, 7983, 1, -8>>, <<7992, 7999, 1, -8>>,
      <<8008, 8013, 1, -8>>, <<8025, 8031, 2, -8>>, <<8040, 8047, 1, -8>>, <<8072, 8079, 1, -8>>, <<8088, 8095, 1, -8>>,
      <<8104, 8111, 1, -8>>, <<8120, 8121, 1, -8>>, <<8122, 8123, 1, -74>>, <<8124, 8124, 1, -9>>, <<8136, 8139, 1, -86>>,
      <<8140, 8140, 1, -9>>, <<8152, 8153, 1, -8>>, <<8154, 8155, 1, -100>>, <<8168, 8169, 1, -8>>, <<8170, 8171, 1, -112>>,
      <<8172, 8172, 1, -7>>, <<8184, 8185, 1, -128>>, <<8186, 8187, 1, -126>>, <<8188, 8188, 1, -9>>, <<8486, 8486, 1, -7517>>,
      <<8490, 8490, 1, -8383>>, <<8491, 8491, 1, -8262>>, <<8498, 8498, 1, 28>>, <<8544, 8559, 1, 16>>, <<8579, 8579, 1, 1>>,
      <<9398, 9423, 1, 26>>, <<11264, 11311, 1, 48>>, <<11360, 11360, 1, 1>>, <<11362, 11362, 1, -10743>>, <<11363, 11363, 1, -3814>>,
      <<11364, 11364, 1, -10727>>, <<11367, 11371, 2, 1>>, <<11373, 11373, 1, -10780>>, <<11374, 11374, 1, -10749>>, <<11375, 11375, 1, -10783>>,
      <<11376, 11376, 1, -10782>>, <<11378, 11378, 1, 1>>, <<11381, 11381, 1, 1>>, <<11390, 11391, 1, -10815>>, <<11392, 11490, 2, 1>>,
      <<11499, 11501, 2, 1>>, <<11506, 11506, 1, 1>>, <<42560, 42604, 2, 1>>, <<42624, 42650, 2, 1>>, <<42786, 42798, 2, 1>>,
      <<42802, 42862, 2, 1>>, <<42873, 42875, 2, 1>>, <<42877, 42877, 1, -35332>>, <<42878, 42886, 2, 1>>, <<42891, 42891, 1, 1>>,
      <<42893, 42893, 1, -42280>>, <<42896, 42898, 2, 1>>, <<42902, 42920, 2, 1>>, <<42922, 42922, 1, -42308>>, <<42923, 42923, 1, -42319>>,
      <<42924, 42924, 1, -42315>>, <<42925, 42925, 1, -42305>>, <<42926, 42926, 1, -42308>>, <<42928, 42928, 1, -42258>>, <<42929, 42929, 1, -42282>>,
      <<42930, 42930, 1, -42261>>, <<42931, 42931, 1, 928>>, <<42932, 42946, 2, 1>>, <<42948, 42948, 1, -48>>, <<42949, 42949, 1, -42307>>,
      <<42950, 42950, 1, -35384>>, <<42951, 42953, 2, 1>>, <<42960, 42960, 1, 1>>, <<42966, 42968, 2, 1>>, <<42997, 42997, 1, 1>>,
      <<65313, 65338, 1, 32>>, <<66560, 66599, 1, 40>>, <<66736, 66771, 1, 40>>, <<66928, 66964, 2, 39>>, <<66929, 66937, 2, 39>>,
      <<66941, 66953, 2, 39>>, <<66957, 66961, 2, 39>>, <<66965, 66965, 1, 39>>, <<68736, 68786, 1, 64>>, <<71840, 71871, 1, 32>>,
      <<93760, 93791, 1, 32>>, <<125184, 125217, 1, 34>> }

\* the cased characters that are not case-ignorable, as ranges <<lo, hi>>
CasedRanges ==
    { <<65, 90>>, <<97, 122>>, <<170, 170>>, <<181, 181>>, <<186, 186>>, <<192, 214>>, <<216, 246>>, <<248, 442>>,
      <<444, 447>>, <<452, 659>>, <<661, 687>>, <<880, 883>>, <<886, 887>>, <<891, 893>>, <<895, 895>>, <<902, 902>>,
      <<904, 906>>, <<908, 908>>, <<910, 929>>, <<931, 1013>>, <<1015, 1153>>, <<1162, 1327>>, <<1329, 1366>>, <<1376, 1416>>,
      <<4256, 4293>>, <<4295, 4295>>, <<4301, 4301>>, <<4304, 4346>>, <<4349, 4351>>, <<5024, 5109>>, <<5112, 5117>>, <<7296, 7304>>,
      <<7312, 7354>>, <<7357, 7359>>, <<7424, 7467>>, <<7531, 7543>>, <<7545, 7578>>, <<7680, 7957>>, <<7960, 7965>>, <<7968, 8005>>,
      <<8008, 8013>>, <<8016, 8023>>, <<8025, 8025>>, <<8027, 8027>>, <<8029, 8029>>, <<8031, 8061>>, <<8064, 8116>>, <<8118, 8124>>,
      <<8126, 8126>>, <<8130, 8132>>, <<8134, 8140>>, <<8144, 8147>>, <<8150, 8155>>, <<8160, 8172>>, <<8178, 8180>>, <<8182, 8188>>,
      <<8450, 8450>>, <<8455, 8455>>, <<8458, 8467>>, <<8469, 8469>>, <<8473, 8477>>, <<8484, 8484>>, <<8486, 8486>>, <<8488, 8488>>,
      <<8490, 8493>>, <<8495, 8500>>, <<8505, 8505>>, <<8508, 8511>>, <<8517, 8521>>, <<8526, 8526>>, <<8544, 8575>>, <<8579, 8580>>,
      <<9398, 9449>>, <<11264, 11387>>, <<11390, 11492>>, <<11499, 11502>>, <<11506, 11507>>, <<11520, 11557>>, <<11559, 11559>>, <<11565, 11565>>,
      <<42560, 42605>>, <<42624, 42651>>, <<42786, 42863>>, <<42865, 42887>>, <<42891, 42894>>, <<42896, 42954>>, <<42960, 42961>>, <<42963, 42963>>,
      <<42965, 42969>>, <<42997, 42998>>, <<43002, 43002>>, <<43824, 43866>>, <<43872, 43880>>, <<43888, 43967>>, <<64256, 64262>>, <<64275, 64279>>,
      <<65313, 65338>>, <<65345, 65370>>, <<66560, 66639>>, <<66736, 66771>>, <<66776, 66811>>, <<66928, 66938>>, <<66940, 66954>>, <<66956, 66962>>,
      <<66964, 66965>>, <<66967, 66977>>, <<66979, 66993>>, <<66995, 67001>>, <<67003, 67004>>, <<68736, 68786>>, <<68800, 68850>>, <<71840, 71903>>,
      <<93760, 93823>>, <<119808, 119892>>, <<119894, 119964>>, <<119966, 119967>>, <<119970, 119970>>, <<119973, 119974>>, <<119977, 119980>>, <<119982, 119993>>,
      <<119995, 119995>>, <<119997, 120003>>, <<120005, 120069>>, <<120071, 120074>>, <<120077, 120084>>, <<120086, 120092>>, <<120094, 120121>>, <<120123, 120126>>,
      <<120128, 120132>>, <<120134, 120134>>, <<120138, 120144>>, <<120146, 120485>>, <<120488, 120512>>, <<120514, 120538>>, <<120540, 120570>>, <<120572, 120596>>,
      <<120598, 120628>>, <<120630, 120654>>, <<120656, 120686>>, <<120688, 120712>>, <<120714, 120744>>, <<120746, 120770>>, <<120772, 120779>>, <<122624, 122633>>,
      <<122635, 122654>>, <<125184, 125251>>, <<127280, 127305>>, <<127312, 127337>>, <<127344, 127369>> }

\* the case-ignorable characters, as ranges <<lo, hi>>
CaseIgnorableRanges ==
    { <<39, 39>>, <<46, 46>>, <<58, 58>>, <<94, 94>>, <<96, 96>>, <<168, 168>>, <<173, 173>>, <<175, 175>>,
      <<180, 180>>, <<183, 184>>, <<688, 879>>, <<884, 885>>, <<890, 890>>, <<900, 901>>, <<903, 903>>, <<1155, 1161>>,
      <<1369, 1369>>, <<1375, 1375>>, <<1425, 1469>>, <<1471, 1471>>, <<1473, 1474>>, <<1476, 1477>>, <<1479, 1479>>, <<1524, 1524>>,
      <<1536, 1541>>, <<1552, 1562>>, <<1564, 1564>>, <<1600, 1600>>, <<1611, 1631>>, <<1648, 1648>>, <<1750, 1757>>, <<1759, 1768>>,
      <<1770, 1773>>, <<1807, 1807>>, <<1809, 1809>>, <<1840, 1866>>, <<1958, 1968>>, <<2027, 2037>>, <<2042, 2042>>, <<2045, 2045>>,
      <<2070, 2093>>, <<2137, 2139>>, <<2184, 2184>>, <<2192, 2193>>, <<2200, 2207>>, <<2249, 2306>>, <<2362, 2362>>, <<2364, 2364>>,
      <<2369, 2376>>, <<2381, 2381>>, <<2385, 2391>>, <<2402, 2403>>, <<2417, 2417>>, <<2433, 2433>>, <<2492, 2492>>, <<2497, 2500>>,
      <<2509, 2509>>, <<2530, 2531>>, <<2558, 2558>>, <<2561, 2562>>, <<2620, 2620>>, <<2625, 2626>>, <<2631, 2632>>, <<2635, 2637>>,
      <<2641, 2641>>, <<2672, 2673>>, <<2677, 2677>>, <<2689, 2690>>, <<2748, 2748>>, <<2753, 2757>>, <<2759, 2760>>, <<2765, 2765>>,
      <<2786, 2787>>, <<2810, 2815>>, <<2817, 2817>>, <<2876, 2876>>, <<2879, 2879>>, <<2881, 2884>>, <<2893, 2893>>, <<2901, 2902>>,
      <<2914, 2915>>, <<2946, 2946>>, <<3008, 3008>>, <<3021, 3021>>, <<3072, 3072>>, <<3076, 3076>>, <<3132, 3132>>, <<3134, 3136>>,
      <<3142, 3144>>, <<3146, 3149>>, <<3157, 3158>>, <<3170, 3171>>, <<3201, 3201>>, <<3260, 3260>>, <<3263, 3263>>, <<3270, 3270>>,
      <<3276, 3277>>, <<3298, 3299>>, <<3328, 3329>>, <<3387, 3388>>, <<3393, 3396>>, <<3405, 3405>>, <<3426, 3427>>, <<3457, 3457>>,
      <<3530, 3530>>, <<3538, 3540>>, <<3542, 3542>>, <<3633, 3633>>, <<3636, 3642>>, <<3654, 3662>>, <<3761, 3761>>, <<3764, 3772>>,
      <<3782, 3782>>, <<3784, 3789>>, <<3864, 3865>>, <<3893, 3893>>, <<3895, 3895>>, <<3897, 3897>>, <<3953, 3966>>, <<3968, 3972>>,
      <<3974, 3975>>, <<3981, 3991>>, <<3993, 4028>>, <<4038, 4038>>, <<4141, 4144>>, <<4146, 4151>>, <<4153, 4154>>, <<4157, 4158>>,
      <<4184, 4185>>, <<4190, 4192>>, <<4209, 4212>>, <<4226, 4226>>, <<4229, 4230>>, <<4237, 4237>>, <<4253, 4253>>, <<4348, 4348>>,
      <<4957, 4959>>, <<5906, 5908>>, <<5938, 5939>>, <<5970, 5971>>, <<6002, 6003>>, <<6068, 6069>>, <<6071, 6077>>, <<6086, 6086>>,
      <<6089, 6099>>, <<6103, 6103>>, <<6109, 6109>>, <<6155, 6159>>, <<6211, 6211>>, <<6277, 6278>>, <<6313, 6313>>, <<6432, 6434>>,
      <<6439, 6440>>, <<6450, 6450>>, <<6457, 6459>>, <<6679, 6680>>, <<6683, 6683>>, <<6742, 6742>>, <<6744, 6750>>, <<6752, 6752>>,
      <<6754, 6754>>, <<6757, 6764>>, <<6771, 6780>>, <<6783, 6783>>, <<6823, 6823>>, <<6832, 6862>>, <<6912, 6915>>, <<6964, 6964>>,
      <<6966, 6970>>, <<6972, 6972>>, <<6978, 6978>>, <<7019, 7027>>, <<7040, 7041>>, <<7074, 7077>>, <<7080, 7081>>, <<7083, 7085>>,
      <<7142, 7142>>, <<7144, 7145>>, <<7149, 7149>>, <<7151, 7153>>, <<7212, 7219>>, <<7222, 7223>>, <<7288, 7293>>, <<7376, 7378>>,
      <<7380, 7392>>, <<7394, 7400>>, <<7405, 7405>>, <<7412, 7412>>, <<7416, 7417>>, <<7468, 7530>>, <<7544, 7544>>, <<7579, 7679>>,
      <<8125, 8125>>, <<8127, 8129>>, <<8141, 8143>>, <<8157, 8159>>, <<8173, 8175>>, <<8189, 8190>>, <<8203, 8207>>, <<8216, 8217>>,
      <<8228, 8228>>, <<8231, 8231>>, <<8234, 8238>>, <<8288, 8292>>, <<8294, 8303>>, <<8305, 8305>>, <<8319, 8319>>, <<8336, 8348>>,
      <<8400, 8432>>, <<11388, 11389>>, <<11503, 11505>>, <<11631, 11631>>, <<11647, 11647>>, <<11744, 11775>>, <<11823, 11823>>, <<12293, 12293>>,
      <<12330, 12333>>, <<12337, 12341>>, <<12347, 12347>>, <<12441, 12446>>, <<12540, 12542>>, <<40981, 40981>>, <<42232, 42237>>, <<42508, 42508>>,
      <<42607, 42610>>, <<42612, 42621>>, <<42623, 42623>>, <<42652, 42655>>, <<42736, 42737>>, <<42752, 42785>>, <<42864, 42864>>, <<42888, 42890>>,
      <<42994, 42996>>, <<43000, 43001>>, <<43010, 43010>>, <<43014, 43014>>, <<43019, 43019>>, <<43045, 43046>>, <<43052, 43052>>, <<43204, 43205>>,
      <<43232, 43249>>, <<43263, 43263>>, <<43302, 43309>>, <<43335, 43345>>, <<43392, 43394>>, <<43443, 43443>>, <<43446, 43449>>, <<43452, 43453>>,
      <<43471, 43471>>, <<43493, 43494>>, <<43561, 43566>>, <<43569, 43570>>, <<43573, 43574>>, <<43587, 43587>>, <<43596, 43596>>, <<43632, 43632>>,
      <<43644, 43644>>, <<43696, 43696>>, <<43698, 43700>>, <<43703, 43704>>, <<43710, 43711>>, <<43713, 43713>>, <<43741, 43741>>, <<43756, 43757>>,
      <<43763, 43764>>, <<43766, 43766>>, <<43867, 43871>>, <<43881, 43883>>, <<44005, 44005>>, <<44008, 44008>>, <<44013, 44013>>, <<64286, 64286>>,
      <<64434, 64450>>, <<65024, 65039>>, <<65043, 65043>>, <<65056, 65071>>, <<65106, 65106>>, <<65109, 65109>>, <<65279, 65279>>, <<65287, 65287>>,
      <<65294, 65294>>, <<65306, 65306>>, <<65342, 65342>>, <<65344, 65344>>, <<65392, 65392>>, <<65438, 65439>>, <<65507, 65507>>, <<65529, 65531>>,
      <<66045, 66045>>, <<66272, 66272>>, <<66422, 66426>>, <<67456, 67461>>, <<67463, 67504>>, <<67506, 67514>>, <<68097, 68099>>, <<68101, 68102>>,
      <<68108, 68111>>, <<68152, 68154>>, <<68159, 68159>>, <<68325, 68326>>, <<68900, 68903>>, <<69291, 69292>>, <<69446, 69456>>, <<69506, 69509>>,
      <<69633, 69633>>, <<69688, 69702>>, <<69744, 69744>>, <<69747, 69748>>, <<69759, 69761>>, <<69811, 69814>>, <<69817, 69818>>, <<69821, 69821>>,
      <<69826, 69826>>, <<69837, 69837>>, <<69888, 69890>>, <<69927, 69931>>, <<69933, 69940>>, <<70003, 70003>>, <<70016, 70017>>, <<70070, 70078>>,
      <<70089, 70092>>, <<70095, 70095>>, <<70191, 70193>>, <<70196, 70196>>, <<70198, 70199>>, <<70206, 70206>>, <<70367, 70367>>, <<70371, 70378>>,
      <<70400, 70401>>, <<70459, 70460>>, <<70464, 70464>>, <<70502, 70508>>, <<70512, 70516>>, <<70712, 70719>>, <<70722, 70724>>, <<70726, 70726>>,
      <<70750, 70750>>, <<70835, 70840>>, <<70842, 70842>>, <<70847, 70848>>, <<70850, 70851>>, <<71090, 71093>>, <<71100, 71101>>, <<71103, 71104>>,
      <<71132, 71133>>, <<71219, 71226>>, <<71229, 71229>>, <<71231, 71232>>, <<71339, 71339>>, <<71341, 71341>>, <<71344, 71349>>, <<71351, 71351>>,
      <<71453, 71455>>, <<71458, 71461>>, <<71463, 71467>>, <<71727, 71735>>, <<71737, 71738>>, <<71995, 71996>>, <<71998, 71998>>, <<72003, 72003>>,
      <<72148, 72151>>, <<72154, 72155>>, <<72160, 72160>>, <<72193, 72202>>, <<72243, 72248>>, <<72251, 72254>>, <<72263, 72263>>, <<72273, 72278>>,
      <<72281, 72283>>, <<72330, 72342>>, <<72344, 72345>>, <<72752, 72758>>, <<72760, 72765>>, <<72767, 72767>>, <<72850, 72871>>, <<72874, 72880>>,
      <<72882, 72883>>, <<72885, 72886>>, <<73009, 73014>>, <<73018, 73018>>, <<73020, 73021>>, <<73023, 73029>>, <<73031, 73031>>, <<73104, 73105>>,
      <<73109, 73109>>, <<73111, 73111>>, <<73459, 73460>>, <<78896, 78904>>, <<92912, 92916>>, <<92976, 92982>>, <<92992, 92995>>, <<94031, 94031>>,
      <<94095, 94111>>, <<94176, 94177>>, <<94179, 94180>>, <<110576, 110579>>, <<110581, 110587>>, <<110589, 110590>>, <<113821, 113822>>, <<113824, 113827>>,
      <<118528, 118573>>, <<118576, 118598>>, <<119143, 119145>>, <<119155, 119170>>, <<119173, 119179>>, <<119210, 119213>>, <<119362, 119364>>, <<121344, 121398>>,
      <<121403, 121452>>, <<121461, 121461>>, <<121476, 121476>>, <<121499, 121503>>, <<121505, 121519>>, <<122880, 122886>>, <<122888, 122904>>, <<122907, 122913>>,
      <<122915, 122916>>, <<122918, 122922>>, <<123184, 123197>>, <<123566, 123566>>, <<123628, 123631>>, <<125136, 125142>>, <<125252, 125259>>, <<127995, 127999>>,
      <<917505, 917505>>, <<917536, 917631>>, <<917760, 917999>> }

\* str.lower() of one character other than U+03A3, as a string: A-Z and the
\* other upper-case characters by LowerRanges, U+0130 to "i" + U+0307,
\* every other character to itself
LowerChar(c) ==
    IF c < 128 THEN (IF 65 <= c /\ c <= 90 THEN <<c + 32>> ELSE <<c>>)
    ELSE IF c = 304 THEN <<105, 775>>
    ELSE IF \E r \in LowerRanges : r[1] <= c /\ c <= r[2] /\ (c - r[1]) % r[3] = 0
    THEN <<c + (CHOOSE r \in LowerRanges :
                   r[1] <= c /\ c <= r[2] /\ (c - r[1]) % r[3] = 0)[4]>>
    ELSE <<c>>

\* the position of the nearest character before j that is not case-ignorable,
\* 0 if there is none
RECURSIVE BackTo(_, _)
BackTo(s, j) ==
    IF j = 0 THEN 0
    ELSE IF InRanges(s[j], CaseIgnorableRanges) THEN BackTo(s, j - 1) ELSE j

\* the position of the nearest character from j on that is not
\* case-ignorable, Len(s) + 1 if there is none
RECURSIVE ForwardTo(_, _)
ForwardTo(s, j) ==
    IF j > Len(s) THEN j
    ELSE IF InRanges(s[j], CaseIgnorableRanges) THEN ForwardTo(s, j + 1) ELSE j

\* str.lower()'s rule for U+03A3 at position j: it is a final sigma when a
\* cased character precedes it and none follows it (case-ignorable
\* characters skipped)
FinalSigma(s, j) ==
    LET b == BackTo(s, j - 1)
        f == ForwardTo(s, j + 1)
    IN  /\ b > 0
        /\ InRanges(s[b], CasedRanges)
        /\ (f > Len(s) \/ ~InRanges(s[f], CasedRanges))

\* the concatenation of a sequence of strings
RECURSIVE Flatten(_)
Flatten(parts) ==
    IF parts = <<>> THEN <<>>
    ELSE IF Len(parts) = 1 THEN parts[1]
    ELSE Flatten(SubSeq(parts, 1, Len(parts) \div 2))
             \o Flatten(SubSeq(parts, Len(parts) \div 2 + 1, Len(parts)))

\* text.lower(), line 9
Lower(s) ==
    Flatten(List([j \in DOMAIN s |->
                     IF s[j] = 931
                     THEN (IF FinalSigma(s, j) THEN <<962>> ELSE <<963>>)
                     ELSE LowerChar(s[j])]))

\* the characters the pattern [^a-z0-9\s] does not match
Kept(c) == c \in AsciiLower \/ c \in AsciiDigits \/ c \in Whitespace

\* re.sub(r'[^a-z0-9\s]', ' ', text), line 10
Sub(s) == List([j \in DOMAIN s |-> IF Kept(s[j]) THEN s[j] ELSE 32])

\* the positions at which a maximal run of non-whitespace characters of s
\* starts
Starts(s) ==
    {j \in DOMAIN s : s[j] \notin Whitespace /\ (j = 1 \/ s[j - 1] \in Whitespace)}

\* the position at which the run of s that starts at j ends
EndOf(s, j) ==
    CHOOSE k \in j..Len(s) :
        /\ \A m \in j..k : s[m] \notin Whitespace
        /\ (k = Len(s) \/ s[k + 1] \in Whitespace)

\* the n-th least element of a set S of integers
Nth(S, n) == CHOOSE j \in S : Cardinality({k \in S : k <= j}) = n

\* the runs of s that start at the positions starts, from left to right
Runs(s, starts) ==
    List([n \in 1..Cardinality(starts) |->
             SubSeq(s, Nth(starts, n), EndOf(s, Nth(starts, n)))])

\* text.split(), line 11: the maximal runs of non-whitespace characters
Split(s) == Runs(s, Starts(s))

\* clean_text without the re.sub of line 10
clean_text_nosub(s) == Split(Lower(s))

\* clean_text, lines 8-11
clean_text(s) == Split(Sub(Lower(s)))

\* " ".join(words)
RECURSIVE Join(_)
Join(words) ==
    IF words = <<>> THEN <<>>
    ELSE IF Len(words) = 1 THEN words[1]
    ELSE words[1] \o <<32>> \o Join(Tail(words))


-----------------------------------------------------------------------------
(* create_index, lines 14-54. *)

\* the file names a corpus folder may hold, in ascending str order
FileNames == <<"doc1", "doc2", "doc3", "notes">>

\* the position of a file name in str order
NameOrd(name) == CHOOSE j \in DOMAIN FileNames : FileNames[j] = name

\* the sequences that list every element of the set S once
RECURSIVE Perms(_)
Perms(S) ==
    IF S = {} THEN {<<>>}
    ELSE UNION {{<<x>> \o p : p \in Perms(S \ {x})} : x \in S}

\* sorted(names) of str, line 25: ascending, by selection of the least
RECURSIVE SortedNames(_)
SortedNames(S) ==
    IF S = {} THEN <<>>
    ELSE LET least == CHOOSE x \in S : \A y \in S : NameOrd(x) <= NameOrd(y)
         IN  <<least>> \o SortedNames(S \ {least})

\* the listing used in the order os.listdir gave it
Unsorted(listing) == listing

\* sorted(os.listdir(folder_path)), line 25
Sorted(listing) == SortedNames(Range(listing))

\* the positions of words that hold an element for the first time
Firsts(words) == {j \in DOMAIN words : \A k \in 1..(j - 1) : words[k] # words[j]}

\* the elements of words at the positions firsts, in order
KeysAt(words, firsts) ==
    List([n \in 1..Cardinality(firsts) |-> words[Nth(firsts, n)]])

\* the distinct elements of words in the order of their first occurrence
Keys(words) == KeysAt(words, Firsts(words))

\* the number of occurrences of t in words
Count(words, t) == Cardinality({j \in DOMAIN words : words[j] = t})

\* the count in words of each of keys
CountEach(words, keys) ==
    List([j \in DOMAIN keys |-> <<keys[j], Count(words, keys[j])>>])

\* Counter(words), lines 36 and 62: the dict term -> number of occurrences,
\* in the order of first occurrence
Counter(words) == CountEach(words, Keys(words))

\* the weight without its leading 1: math.log10(tf) alone
TfWeightLogOnly(tf) == Log10(FInt(tf))

\* 1 + math.log10(tf), lines 40 and 68
TfWeight(tf) == FAdd(FInt(1), Log10(FInt(tf)))

\* index[term][0] and index[term][1] of the code
Df(entry) == entry[1]
Postings(entry) == entry[2]

\* lines 43-44: the entry of a term after one more posting
AddPosting(entry, doc_id, weight) ==
    <<Df(entry) + 1, Append(Postings(entry), <<doc_id, weight>>)>>

\* lines 40 and 43-44 for one pair (term, tf) whose term is in the index
AddTerm(idx, doc_id, item) ==
    Put(idx, item[1], AddPosting(Value(idx, item[1]), doc_id, TfWeight(item[2])))

\* the loop of lines 39-44 over the pairs (term, tf) of items from position
\* k on: a term that is not in the index gets the entry [0, []] first
RECURSIVE IndexFrom(_, _, _, _)
IndexFrom(idx, doc_id, items, k) ==
    IF k > Len(items) THEN idx
    ELSE IF HasKey(idx, items[k][1])
    THEN IndexFrom(AddTerm(idx, doc_id, items[k]), doc_id, items, k + 1)
    ELSE IndexFrom(AddTerm(Put(idx, items[k][1], <<0, <<>>>>), doc_id, items[k]),
                   doc_id, items, k + 1)

\* the loop of lines 39-44 over the pairs (term, tf) of items
IndexTerms(idx, doc_id, items) == IndexFrom(idx, doc_id, items, 1)

\* one posting per occurrence: the loop of lines 39-44 run over words
\* instead of over tf_counts.items()
IndexDocPerOccurrence(idx, doc_id, words) ==
    IndexTerms(idx, doc_id,
               List([j \in DOMAIN words |-> <<words[j], Count(words, words[j])>>]))

\* lines 36-44: one document's terms enter the inverted index
IndexDoc(idx, doc_id, words) == IndexTerms(idx, doc_id, Counter(words))

\* the doc_ids that occur in some posting of the index
PostedDocs(idx) ==
    UNION {{Postings(idx[t][2])[j][1] : j \in DOMAIN Postings(idx[t][2])} : t \in DOMAIN idx}

\* line 49 for one posting, with old = doc_lengths.get(doc_id, 0)
AddSquare(lens, posting, old) ==
    Put(lens, posting[1], FAdd(old, PowTwo(posting[2])))

\* lines 48-49 over the postings of a list from position k on
RECURSIVE AddSquares(_, _, _)
AddSquares(lens, postings, k) ==
    IF k > Len(postings) THEN lens
    ELSE IF HasKey(lens, postings[k][1])
    THEN AddSquares(AddSquare(lens, postings[k], Value(lens, postings[k][1])),
                    postings, k + 1)
    ELSE AddSquares(AddSquare(lens, postings[k], FZero), postings, k + 1)

\* lines 47-49 over the entries of the index from position k on
RECURSIVE SumSquares(_, _, _)
SumSquares(lens, idx, k) ==
    IF k > Len(idx) THEN lens
    ELSE SumSquares(AddSquares(lens, Postings(idx[k][2]), 1), idx, k + 1)

\* lines 51-52: the square root of each sum
SqrtEach(sums) == List([j \in DOMAIN sums |-> <<sums[j][1], FSqrt(sums[j][2])>>])

\* lines 47-52: the length of each document vector
DocLengths(idx) == SqrtEach(SumSquares(EmptyDict, idx, 1))

\* lines 28-44 over the files from position k on
RECURSIVE IndexFiles(_, _, _, _)
IndexFiles(idx, fs, k, dir) ==
    IF k > Len(fs) THEN idx
    ELSE IndexFiles(IndexDoc(idx, k, clean_text(dir[fs[k]])), fs, k + 1, dir)

\* lines 46-54: the bundle returned for the files fs and their index idx
Returns(fs, idx) ==
    [index |-> idx,
     doc_lengths |-> DocLengths(idx),
     doc_map |-> List([d \in 1..Len(fs) |-> <<d, fs[d]>>]),
     N |-> Len(fs)]

\* lines 26-54 for the sorted files fs
IndexSorted(dir, fs) == Returns(fs, IndexFiles(EmptyDict, fs, 1, dir))

\* create_index, lines 14-54, as one call: the bundle it returns
create_index(dir, listing) == IndexSorted(dir, Sorted(listing))

-----------------------------------------------------------------------------
(* rank_query, lines 57-88. *)

\* math.log10(N / df), line 70, where N / df > 0
Idf(n, df) == Log10(FDiv(FInt(n), FInt(df)))

\* the query terms that are in the index, line 67
QueryTerms(q_tf, idx) == {term \in KeySet(q_tf) : HasKey(idx, term)}

\* lines 65-71: the tf-idf weight of each query term that is in the index
RECURSIVE QueryWeights(_, _, _)
QueryWeights(q_tf, idx, n) ==
    IF q_tf = <<>> THEN <<>>
    ELSE IF HasKey(idx, Head(q_tf)[1])
    THEN <<<<Head(q_tf)[1],
             FMul(TfWeight(Head(q_tf)[2]), Idf(n, Df(Value(idx, Head(q_tf)[1]))))>>>>
             \o QueryWeights(Tail(q_tf), idx, n)
    ELSE QueryWeights(Tail(q_tf), idx, n)

\* sum(w**2 for w in q_weights.values()), line 74, over the first n items:
\* added from left to right
RECURSIVE SumPowTwo(_, _)
SumPowTwo(q_weights, n) ==
    IF n = 0 THEN FZero
    ELSE FAdd(SumPowTwo(q_weights, n - 1), PowTwo(q_weights[n][2]))

\* line 74: norm = math.sqrt(sum(w**2 for w in q_weights.values()))
Norm(q_weights) == FSqrt(SumPowTwo(q_weights, Len(q_weights)))

\* lines 75-76 for the norm of line 74
DividedBy(q_weights, norm) ==
    IF FLess(FZero, norm)
    THEN List([j \in DOMAIN q_weights |->
                 <<q_weights[j][1], FDiv(q_weights[j][2], norm)>>])
    ELSE q_weights

\* lines 74-76: the query vector brought to unit length when norm > 0
Normalized(q_weights) == DividedBy(q_weights, Norm(q_weights))

\* line 82 for one posting, with old = scores[doc_id]
AddScore(scores, q_w, posting, lens, old) ==
    Put(scores, posting[1],
        FAdd(old, FMul(q_w, FDiv(posting[2], Value(lens, posting[1])))))

\* lines 81-82 over the postings of a list from position k on: scores is a
\* defaultdict(float), a doc_id it does not hold starts at 0.0
RECURSIVE AddScores(_, _, _, _, _)
AddScores(scores, q_w, postings, lens, k) ==
    IF k > Len(postings) THEN scores
    ELSE IF HasKey(scores, postings[k][1])
    THEN AddScores(AddScore(scores, q_w, postings[k], lens,
                            Value(scores, postings[k][1])),
                   q_w, postings, lens, k + 1)
    ELSE AddScores(AddScore(scores, q_w, postings[k], lens, FZero),
                   q_w, postings, lens, k + 1)

\* lines 80-82 over the items of q_weights from position k on, from the dict
\* scores on
RECURSIVE ScoresFrom(_, _, _, _, _)
ScoresFrom(scores, q_weights, idx, lens, k) ==
    IF k > Len(q_weights) THEN scores
    ELSE ScoresFrom(AddScores(scores, q_weights[k][2],
                              Postings(Value(idx, q_weights[k][1])), lens, 1),
                    q_weights, idx, lens, k + 1)

\* scores that start with an entry of 0.0 for every document that has a length
ScoresAllDocs(q_weights, idx, lens) ==
    ScoresFrom(List([j \in DOMAIN lens |-> <<lens[j][1], FZero>>]), q_weights, idx, lens, 1)

\* lines 79-82: scores, a defaultdict(float) with an entry for every doc_id
\* the loop meets
Scores(q_weights, idx, lens) ==
    ScoresFrom(EmptyDict, q_weights, idx, lens, 1)

\* the sort key (score, doc_id): ascending score
KeyLessAscending(a, b) == FLess(a[2], b[2]) \/ (a[2] = b[2] /\ a[1] < b[1])

\* the sort key of line 85, (-score, doc_id), on items <<doc_id, score>>
KeyLess(a, b) == FLess(FNeg(a[2]), FNeg(b[2])) \/ (a[2] = b[2] /\ a[1] < b[1])

\* sorted(items, key=...), line 85: by selection of the least key
RECURSIVE SortedItems(_)
SortedItems(S) ==
    IF S = {} THEN <<>>
    ELSE LET least == CHOOSE x \in S : \A y \in S \ {x} : KeyLess(x, y)
         IN  <<least>> \o SortedItems(S \ {least})

\* line 85: ranked = sorted(scores.items(), key=lambda x: (-x[1], x[0]))
Ranked(scores) == SortedItems(Range(scores))

\* ranked[:top_k], line 88: the first top_k items, and for a negative top_k
\* all but the last -top_k
TopSlice(ranked, k) ==
    SubSeq(ranked, 1,
           IF k >= Len(ranked) THEN Len(ranked)
           ELSE IF k >= 0 THEN k
           ELSE IF Len(ranked) + k >= 0 THEN Len(ranked) + k ELSE 0)

\* the first exception of the loop of lines 66-71 over the items of q_tf:
\* N / df with df = 0, math.log10 of a value <= 0
RECURSIVE WeightRaises(_, _, _)
WeightRaises(q_tf, idx, n) ==
    IF q_tf = <<>> THEN "none"
    ELSE IF ~HasKey(idx, Head(q_tf)[1]) THEN WeightRaises(Tail(q_tf), idx, n)
    ELSE IF Df(Value(idx, Head(q_tf)[1])) = 0 THEN "ZeroDivisionError"
    ELSE IF n * Df(Value(idx, Head(q_tf)[1])) <= 0 THEN "ValueError"
    ELSE WeightRaises(Tail(q_tf), idx, n)

\* the first exception of line 82 over one postings list: a doc_id without
\* a doc_lengths entry, a division by a length of 0
RECURSIVE PostingsRaise(_, _)
PostingsRaise(postings, lens) ==
    IF postings = <<>> THEN "none"
    ELSE IF ~HasKey(lens, Head(postings)[1]) THEN "KeyError"
    ELSE IF Value(lens, Head(postings)[1]) = FZero THEN "ZeroDivisionError"
    ELSE PostingsRaise(Tail(postings), lens)

\* the first exception of the loop of lines 80-82 over the terms of
\* q_weights, which are the terms of q_tf that are in the index
RECURSIVE ScoreRaises(_, _, _)
ScoreRaises(q_tf, idx, lens) ==
    IF q_tf = <<>> THEN "none"
    ELSE IF ~HasKey(idx, Head(q_tf)[1]) THEN ScoreRaises(Tail(q_tf), idx, lens)
    ELSE LET exc == PostingsRaise(Postings(Value(idx, Head(q_tf)[1])), lens)
         IN  IF exc # "none" THEN exc ELSE ScoreRaises(Tail(q_tf), idx, lens)

\* the exception lines 61-82 raise, "none" if they raise nothing: the first
\* one met on lines 66-71, then on lines 80-82
ScoringRaises(q_tf, idx, lens, n) ==
    LET exc70 == WeightRaises(q_tf, idx, n)
    IN  IF exc70 # "none" THEN exc70 ELSE ScoreRaises(q_tf, idx, lens)

\* lines 64-85 for the outcome exc of ScoringRaises
RankedOr(q_tf, idx, lens, n, exc) ==
    [raised |-> exc,
     ranked |-> IF exc = "none"
                THEN Ranked(Scores(Normalized(QueryWeights(q_tf, idx, n)), idx, lens))
                ELSE <<>>]

\* lines 64-85 for the term frequencies q_tf of the query
RankTerms(q_tf, idx, lens, n) ==
    RankedOr(q_tf, idx, lens, n, ScoringRaises(q_tf, idx, lens, n))

\* lines 61-85: the exception they raise and, when they raise none, the list
\* ranked
Ranking(q, idx, lens, n) == RankTerms(Counter(clean_text(q)), idx, lens, n)

\* line 88 for top = ranked[:top_k]: doc_map is looked up for the items of
\* top only, and a doc_id it lacks raises KeyError
Rows(top, dmap) ==
    IF \E j \in DOMAIN top : ~HasKey(dmap, top[j][1])
    THEN [raised |-> "KeyError", rows |-> <<>>]
    ELSE [raised |-> "none",
          rows |-> List([j \in DOMAIN top |-> <<Value(dmap, top[j][1]), top[j][2]>>])]

\* line 88 after the outcome r of lines 61-85
Returned(r, dmap, k) ==
    IF r.raised # "none" THEN [raised |-> r.raised, rows |-> <<>>]
    ELSE Rows(TopSlice(r.ranked, k), dmap)

\* rank_query, lines 57-88: what it raises and what it returns
rank_query(q, idx, lens, dmap, n, k) == Returned(Ranking(q, idx, lens, n), dmap, k)

-----------------------------------------------------------------------------
(* The inputs of the model. *)

\* "the", "cat", "sat", "dog", " "
The == <<116, 104, 101>>
Cat == <<99, 97, 116>>
Sat == <<115, 97, 116>>
Dog == <<100, 111, 103>>
Sp == <<32>>

\* the three documents of the spec's concrete scenario
TheCatSat == The \o Sp \o Cat \o Sp \o Sat
TheDogSat == The \o Sp \o Dog \o Sp \o Sat
CatDogCat == Cat \o Sp \o Dog \o Sp \o Cat

\* the raw texts a file of the corpus may hold: the scenario's documents and
\* a file of punctuation only ("?!"), which has no tokens
DocTexts == {TheCatSat, TheDogSat, CatDogCat, <<63, 33>>}

\* "a", "b", "c", "d", "f", "z"
A == <<97>>
B == <<98>>
C == <<99>>
D == <<100>>
F == <<102>>
Z == <<122>>

\* doc1 "a b c d", doc2 "f", doc3 "": for the query "a c f" the scores of
\* doc1, a sum of two products, and of doc2, one product, are the same float
TieFolder ==
    [name \in {"doc1", "doc2", "doc3"} |->
        IF name = "doc1" THEN Join(<<A, B, C, D>>)
        ELSE IF name = "doc2" THEN F ELSE <<>>]

\* doc2 "", doc3 "a a a a a a b b b c c c c c c d d d", notes
\* "a a a b b b c c c c c c d d d d d d": the lengths of doc3 and notes are
\* sums of the same four squares in another order
SumOrderFolder ==
    [name \in {"doc2", "doc3", "notes"} |->
        IF name = "doc3"
        THEN Join(<<A, A, A, A, A, A, B, B, B, C, C, C, C, C, C, D, D, D>>)
        ELSE IF name = "notes"
        THEN Join(<<A, A, A, B, B, B, C, C, C, C, C, C, D, D, D, D, D, D>>)
        ELSE <<>>]

\* doc1 "z", doc2 "a a a a b b c c d", notes "a a b b b b c d d"
NearTieFolder ==
    [name \in {"doc1", "doc2", "notes"} |->
        IF name = "doc1" THEN Z
        ELSE IF name = "doc2" THEN Join(<<A, A, A, A, B, B, C, C, D>>)
        ELSE Join(<<A, A, B, B, B, B, C, D, D>>)]

\* the query strings: "", "cat", "the", "the cat", "DOG!", "zebra",
\* "cat cat dog", "?", "a c f", "c c", "b c"
Queries ==
    { <<>>, Cat, The, The \o Sp \o Cat, <<68, 79, 71, 33>>,
      <<122, 101, 98, 114, 97>>, Cat \o Sp \o Cat \o Sp \o Dog, <<63>>,
      Join(<<A, C, F>>), Join(<<C, C>>), Join(<<B, C>>) }

\* the corpus folders: the first n of FileNames for an n of at most MaxDocs,
\* each file holding one of DocTexts, and the three folders above
Folders ==
    UNION {[Range(SubSeq(FileNames, 1, n)) -> DocTexts] : n \in 0..MaxDocs}
        \cup {TieFolder, SumOrderFolder, NearTieFolder}

\* the characters of the tokenizer runs: a, B, 7, space, \n, \f, -, e with
\* acute accent, U+0130 (lower: i, U+0307) and U+212A (lower: k)
CleanChars == {97, 66, 55, 32, 10, 12, 45, 233, 304, 8490}

\* the strings over CleanChars of length at most n
\* the strings of S and those with one more character
Longer(S) == S \cup {Append(s, c) : s \in S, c \in CleanChars}

RECURSIVE Strings(_)
Strings(n) == IF n = 0 THEN {<<>>} ELSE Longer(Strings(n - 1))

\* no second run yet
NoBundle ==
    [built |-> FALSE, in_order |-> TRUE, index |-> EmptyDict,
     doc_lengths |-> EmptyDict, doc_map |-> EmptyDict, N |-> 0]

\* no call's result
NoResult == [raised |-> "none", rows |-> <<>>]

-----------------------------------------------------------------------------
(* The program: the index is built once at import (line 97), then requests *)
(* are served.                                                             *)

InitBuild ==
    /\ files = <<>>
    /\ N = 0
    /\ index = EmptyDict
    /\ doc_lengths = EmptyDict
    /\ doc_map = EmptyDict
    /\ i = 0

InitCall ==
    /\ query = <<>>
    /\ top_k = 0
    /\ results = <<>>
    /\ raised = "none"

InitClean ==
    /\ text = <<>>
    /\ tokens = <<>>
    /\ retokens = <<>>

InitRebuild ==
    /\ rebuilt = NoBundle
    /\ results2 = NoResult

Init ==
    /\ folder \in Folders
    /\ pc = "start"
    /\ InitBuild /\ InitCall /\ InitClean /\ InitRebuild

\* lines 21-26: os.listdir returns the names in any order; they are sorted
ListFiles ==
    /\ pc = "start"
    /\ \E listing \in Perms(DOMAIN folder) :
          /\ files' = Sorted(listing)
          /\ N' = Len(Sorted(listing))
    /\ pc' = "index"
    /\ UNCHANGED <<folder, index, doc_lengths, doc_map, i>>
    /\ UNCHANGED <<callVars, cleanVars, rebuildVars>>

\* lines 28-44: one iteration of the loop over the files
IndexFile ==
    /\ pc = "index"
    /\ i < N
    /\ i' = i + 1
    /\ doc_map' = Put(doc_map, i + 1, files[i + 1])
    /\ index' = IndexDoc(index, i + 1, clean_text(folder[files[i + 1]]))
    /\ UNCHANGED <<folder, files, N, doc_lengths, pc>>
    /\ UNCHANGED <<callVars, cleanVars, rebuildVars>>

\* lines 46-54 and 97: the document lengths; the bundle is returned
ComputeLengths ==
    /\ pc = "index"
    /\ i = N
    /\ doc_lengths' = DocLengths(index)
    /\ pc' = "serving"
    /\ UNCHANGED <<folder, files, N, index, doc_map, i>>
    /\ UNCHANGED <<callVars, cleanVars, rebuildVars>>

\* search_page on GET, lines 106-113: rank_query is not called
SearchGet ==
    /\ pc = "serving"
    /\ query' = <<>>
    /\ results' = <<>>
    /\ raised' = "none"
    /\ top_k' = 0
    /\ pc' = "get"
    /\ UNCHANGED <<folder, buildVars, cleanVars, rebuildVars>>

\* the call rank_query(q, ..., k) ends with the outcome r
Outcome(q, k, r) ==
    /\ query' = q
    /\ top_k' = k
    /\ results' = r.rows
    /\ raised' = r.raised

\* a POST whose lookup of a missing term adds it to the index, as a
\* defaultdict index would
SearchPostInserting ==
    /\ pc = "serving"
    /\ \E q \in Queries :
          /\ Outcome(q, DefaultTopK,
                     rank_query(q, index, doc_lengths, doc_map, N, DefaultTopK))
          /\ index' = LET Missing(term) == ~HasKey(index, term)
                           added == SelectSeq(Keys(clean_text(q)), Missing)
                       IN  index \o [j \in DOMAIN added |-> <<added[j], <<0, <<>>>>>>]
    /\ pc' = "post"
    /\ UNCHANGED <<folder, files, N, doc_lengths, doc_map, i, cleanVars, rebuildVars>>

\* search_page on POST, lines 109-113: rank_query with the default top_k
SearchPost ==
    /\ pc = "serving"
    /\ \E q \in Queries :
          Outcome(q, DefaultTopK,
                  rank_query(q, index, doc_lengths, doc_map, N, DefaultTopK))
    /\ pc' = "post"
    /\ UNCHANGED <<folder, buildVars, cleanVars, rebuildVars>>

\* the calls rank_query(q, ..., k) for the top_k values k of the model: lines
\* 61-85, whose outcome is ranking, do not depend on top_k
DirectCalls(q, ranking) ==
    \E k \in 0..MaxTopK : Outcome(q, k, Returned(ranking, doc_map, k))

\* a direct call of rank_query with any top_k >= 0, lines 57-88
RankQuery ==
    /\ pc = "serving"
    /\ \E q \in Queries : DirectCalls(q, Ranking(q, index, doc_lengths, N))
    /\ pc' = "rank_query"
    /\ UNCHANGED <<folder, buildVars, cleanVars, rebuildVars>>

\* the call is over: its locals are gone, the server waits for the next one
Return ==
    /\ pc \in {"get", "post", "rank_query"}
    /\ pc' = "serving"
    /\ query' = <<>>
    /\ top_k' = 0
    /\ results' = <<>>
    /\ raised' = "none"
    /\ results2' = NoResult
    /\ UNCHANGED <<folder, buildVars, cleanVars, rebuilt>>

Next ==
    \/ ListFiles
    \/ IndexFile
    \/ ComputeLengths
    \/ SearchGet
    \/ SearchPost
    \/ RankQuery
    \/ Return

Spec == Init /\ [][Next]_vars

-----------------------------------------------------------------------------
(* Tokenizer runs: clean_text on a string, then on its own joined output. *)

InitClean2 ==
    /\ text \in Strings(MaxLen)
    /\ tokens = <<>>
    /\ retokens = <<>>
    /\ pc = "clean_start"
    /\ folder = [name \in {} |-> <<>>]
    /\ InitBuild /\ InitCall /\ InitRebuild

\* clean_text(text)
Clean ==
    /\ pc = "clean_start"
    /\ tokens' = clean_text(text)
    /\ pc' = "cleaned"
    /\ UNCHANGED <<folder, buildVars, callVars, rebuildVars, text, retokens>>

\* clean_text(" ".join(tokens))
Reclean ==
    /\ pc = "cleaned"
    /\ retokens' = clean_text(Join(tokens))
    /\ pc' = "recleaned"
    /\ UNCHANGED <<folder, buildVars, callVars, rebuildVars, text, tokens>>

NextClean == Clean \/ Reclean

SpecClean == InitClean2 /\ [][NextClean]_vars

-----------------------------------------------------------------------------
(* Two builds of the same folder: the program's own, step by step, and a   *)
(* second run of create_index whose os.listdir may list the files in       *)
(* another order; then the same query on both bundles.                     *)

\* the bundle b, made from the listing, as the value of rebuilt; in_order
\* tells whether os.listdir gave the names in sorted order
Bundle(b, listing) ==
    [built |-> TRUE, in_order |-> listing = Sorted(listing), index |-> b.index,
     doc_lengths |-> b.doc_lengths, doc_map |-> b.doc_map, N |-> b.N]

\* a second run of create_index, lines 14-54, over the same folder
Rebuild ==
    /\ pc = "serving"
    /\ ~rebuilt.built
    /\ \E listing \in Perms(DOMAIN folder) :
          rebuilt' = Bundle(create_index(folder, listing), listing)
    /\ UNCHANGED <<folder, buildVars, callVars, cleanVars, results2, pc>>

\* the calls rank_query(q, ..., k) on both bundles for the top_k values k of
\* the model
BothCalls(q, ranking, ranking2) ==
    \E k \in 0..MaxTopK :
        /\ Outcome(q, k, Returned(ranking, doc_map, k))
        /\ results2' = Returned(ranking2, rebuilt.doc_map, k)

\* rank_query, lines 57-88, with the same arguments on both bundles
QueryBoth ==
    /\ pc = "serving"
    /\ rebuilt.built
    /\ \E q \in Queries :
          BothCalls(q, Ranking(q, index, doc_lengths, N),
                    Ranking(q, rebuilt.index, rebuilt.doc_lengths, rebuilt.N))
    /\ pc' = "rank_query"
    /\ UNCHANGED <<folder, buildVars, cleanVars, rebuilt>>

NextRebuild ==
    \/ ListFiles
    \/ IndexFile
    \/ ComputeLengths
    \/ Rebuild
    \/ QueryBoth
    \/ Return

SpecRebuild == Init /\ [][NextRebuild]_vars

-----------------------------------------------------------------------------
(* Properties. *)

\* create_index has returned
Built == pc \in {"serving", "get", "post", "rank_query"}

\* a rank_query call has just ended
Called == pc \in {"post", "rank_query"}

\* the tokens of document doc_id
WordsOf(doc_id) == clean_text(folder[files[doc_id]])

\* the doc_id of a label of a result row (file names are unique in a folder)
DocIdOf(label) == CHOOSE d \in KeySet(doc_map) : Value(doc_map, d) = label

\* the scores rank_query accumulated for the current query
CurrentScores ==
    Scores(Normalized(QueryWeights(Counter(clean_text(query)), index, N)),
           index, doc_lengths)

\* the documents whose score in scores is not zero
NonzeroIn(scores) == {d \in KeySet(scores) : Value(scores, d) # FZero}

\* the documents whose accumulated score for the current query is not zero
NonzeroDocs == NonzeroIn(CurrentScores)

\* C1: every row rank_query returns has a nonzero score, and when top_k is at
\* least the number of documents with a nonzero accumulated score the result
\* is exactly those documents.  The code returns every document the scoring
\* loop met, also those whose score is 0.
C1_OnlyNonzeroScores ==
    (Called /\ raised = "none") =>
        /\ \A j \in DOMAIN results : results[j][2] # FZero
        /\ top_k >= Cardinality(NonzeroDocs) =>
              /\ Len(results) = Cardinality(NonzeroDocs)
              /\ {results[j][1] : j \in DOMAIN results}
                    = {Value(doc_map, d) : d \in NonzeroDocs}

\* C2: after create_index, doc_lengths has an entry for every doc_id in 1..N,
\* and a document with no tokens has an entry of length 0 and no postings.
\* The code gives a document without postings no entry at all.
C2_EveryDocHasLength ==
    Built =>
        /\ \A d \in 1..N : HasKey(doc_lengths, d)
        /\ \A d \in 1..N :
              WordsOf(d) = <<>> =>
                  /\ HasKey(doc_lengths, d)
                  /\ Value(doc_lengths, d) = FZero
                  /\ d \notin PostedDocs(index)

\* C3: for every term of the index, its document frequency is at least 1,
\* is the length of its postings list and is the number of distinct
\* documents (of those indexed) that contain the term; no doc_id occurs
\* twice in a postings list.
C3_DocumentFrequency ==
    pc \in {"index"} \cup {"serving", "get", "post", "rank_query"} =>
        \A term \in KeySet(index) :
            LET df == Df(Value(index, term))
                postings == Postings(Value(index, term))
            IN  /\ df >= 1
                /\ df = Len(postings)
                /\ df = Cardinality({d \in 1..i : term \in Range(WordsOf(d))})
                /\ \A a, b \in DOMAIN postings :
                      postings[a][1] = postings[b][1] => a = b

\* C3's case: the index is built and holds a term of two or more documents,
\* one of which contains it more than once
C3_Witness ==
    /\ pc = "serving"
    /\ \E term \in KeySet(index) :
          /\ Df(Value(index, term)) >= 2
          /\ \E j \in DOMAIN Postings(Value(index, term)) :
                FLess(FInt(1), Postings(Value(index, term))[j][2])

\* C4: the list rank_query returns is at most top_k long (so empty for
\* top_k = 0), its scores do not increase from first to last, and of two
\* adjacent rows with equal scores the first has the smaller doc_id.
C4_SortedAndBounded ==
    (Called /\ raised = "none") =>
        /\ Len(results) <= top_k
        /\ top_k = 0 => results = <<>>
        /\ \A j \in 1..(Len(results) - 1) :
              /\ ~FLess(results[j][2], results[j + 1][2])
              /\ results[j][2] = results[j + 1][2] =>
                    DocIdOf(results[j][1]) < DocIdOf(results[j + 1][1])

\* C4's case: a call that returned top_k rows whose first two, documents of
\* different texts, tie on a score above 0: "a c f" on TieFolder, where the
\* score of doc1 is a sum of two products and that of doc2 is one product
C4_Witness ==
    /\ pc = "rank_query"
    /\ folder = TieFolder
    /\ top_k = 2
    /\ Len(results) = top_k
    /\ results[1][1] = "doc1"
    /\ results[2][1] = "doc2"
    /\ results[1][2] = results[2][2]
    /\ FLess(FZero, results[1][2])
    /\ Len(QueryWeights(Counter(clean_text(query)), index, N)) = 3

\* C5: a query with no tokens, or whose tokens are all absent from the
\* index, makes rank_query return the empty list (also when N = 0).
C5_NoMatchGivesEmpty ==
    (Called /\ QueryTerms(Counter(clean_text(query)), index) = {}) =>
        /\ raised = "none"
        /\ results = <<>>

\* C5's case: a query with a token, none of them in a non-empty index
C5_Witness ==
    /\ pc = "post"
    /\ clean_text(query) # <<>>
    /\ index # EmptyDict
    /\ QueryTerms(Counter(clean_text(query)), index) = {}
    /\ results = <<>>

\* C6: once create_index has returned, no step (no query, with any top_k)
\* changes index, doc_lengths, doc_map or N.
C6_QueriesLeaveIndexAlone ==
    [][Built => UNCHANGED <<index, doc_lengths, doc_map, N>>]_vars

\* C6's case: a POST has been handled whose query has a token that is not
\* in the index and a token that is
C6_Witness ==
    /\ pc = "post"
    /\ results # <<>>
    /\ \E term \in Range(clean_text(query)) : ~HasKey(index, term)

\* C7: on every built index rank_query raises nothing: every term's document
\* frequency is in 1..N (N / df divides by no zero, the logarithm is of a
\* value >= 1), and every doc_id of a posting has a doc_lengths entry
\* greater than 0.
C7_RankQueryNeverRaises ==
    /\ Called => raised = "none"
    /\ Built =>
          \A term \in KeySet(index) :
              /\ 1 <= Df(Value(index, term))
              /\ Df(Value(index, term)) <= N
              /\ \A j \in DOMAIN Postings(Value(index, term)) :
                    LET doc_id == Postings(Value(index, term))[j][1]
                    IN  /\ HasKey(doc_lengths, doc_id)
                        /\ FLess(FZero, Value(doc_lengths, doc_id))

\* C7's case: a corpus with a document without tokens, and a call that
\* matched and returned rows
C7_Witness ==
    /\ Called
    /\ raised = "none"
    /\ results # <<>>
    /\ \E d \in 1..N : WordsOf(d) = <<>>

\* C8: clean_text of the space-joined tokens of clean_text(x) is clean_text(x),
\* and every token is non-empty and made of a-z and 0-9 only.
C8_CleanTextIdempotent ==
    /\ pc = "recleaned" => retokens = tokens
    /\ pc \in {"cleaned", "recleaned"} =>
          \A j \in DOMAIN tokens :
              /\ tokens[j] # <<>>
              /\ \A m \in DOMAIN tokens[j] :
                    tokens[j][m] \in AsciiLower \cup AsciiDigits

\* C8's case: an input with an upper-case letter and a character outside
\* a-z, 0-9 and whitespace, which yields two tokens or more
C8_Witness ==
    /\ pc = "recleaned"
    /\ Len(tokens) >= 2
    /\ \E j \in DOMAIN text : text[j] \in {66, 304, 8490}
    /\ \E j \in DOMAIN text : text[j] \in {45, 233}

\* the corpus of the spec's concrete scenario
ScenarioFolder ==
    [name \in {"doc1", "doc2", "doc3"} |->
        IF name = "doc1" THEN TheCatSat
        ELSE IF name = "doc2" THEN TheDogSat ELSE CatDogCat]

\* C9: on the scenario's corpus the query "cat" with top_k = 10 returns two
\* rows, doc3 then doc1, with score(doc3) > score(doc1) > 0; doc2 is absent.
C9_Scenario ==
    (folder = ScenarioFolder /\ Called /\ query = Cat /\ top_k = DefaultTopK) =>
        /\ raised = "none"
        /\ Len(results) = 2
        /\ results[1][1] = "doc3"
        /\ results[2][1] = "doc1"
        /\ FLess(results[2][2], results[1][2])
        /\ FLess(FZero, results[2][2])
        /\ \A j \in DOMAIN results : results[j][1] # "doc2"

\* C9's case: the scenario's corpus is indexed and "cat" has been queried
C9_Witness ==
    /\ folder = ScenarioFolder
    /\ pc = "post"
    /\ query = Cat
    /\ top_k = DefaultTopK
    /\ N = 3

\* the number of files of the folder whose name sorts before name
Before(name) == Cardinality({n \in DOMAIN folder : NameOrd(n) < NameOrd(name)})

\* C10: two runs of create_index over the same folder give every document
\* the same doc_id, 1, 2, ... in sorted file-name order, and rank_query gives
\* the same rows for the same query and top_k on both bundles.
C10_Deterministic ==
    /\ Built =>
          /\ KeySet(doc_map) = 1..Cardinality(DOMAIN folder)
          /\ \A d \in KeySet(doc_map) : Before(Value(doc_map, d)) = d - 1
    /\ rebuilt.built =>
          /\ rebuilt.doc_map = doc_map
          /\ rebuilt.N = N
    /\ (pc = "rank_query" /\ rebuilt.built) =>
          results2 = [raised |-> raised, rows |-> results]

\* C10's case: the second run was given the files in an order that is not
\* the sorted one, and a query of two or more terms of the index returned
\* two or more rows on both bundles
C10_Witness ==
    /\ pc = "rank_query"
    /\ rebuilt.built
    /\ ~rebuilt.in_order
    /\ N >= 2
    /\ Len(QueryWeights(Counter(clean_text(query)), index, N)) >= 2
    /\ Len(results) >= 2
    /\ results2.rows = results

====
